---- MODULE Spec2Model ----
(***************************************************************************)
(* A model of jsiterable's Iterable<T> (src/src/index.ts): the wrapper     *)
(* class, the generator closures its combinators build, and the ES2015     *)
(* iteration protocol (iterators, generators, for-of with IteratorClose)   *)
(* those closures run on.                                                  *)
(*                                                                         *)
(* JavaScript values are written as strings: "null", "undefined", "false", *)
(* "true", "''" (the empty string) and decimal numbers ("0", "1", ...).    *)
(* Objects live in `heap` and are named by their position in it.           *)
(***************************************************************************)
EXTENDS Integers, Sequences, FiniteSets, TLC

\* Longest collection / generator the caller hands to the library.
MaxLen == 2
\* Most objects alive at once (the caller's data, Iterable instances, iterators).
MaxHeap == 3

\* The iterators a caller holds at once when it iterates by hand.
MaxIterators == 2

\* Most objects alive before a traversal when combinators are chained: the
\* caller's array, the sequence over it and the stages built on that.
MaxChain == 4

VARIABLES
    heap,   \* the object heap: caller's data object, Iterable instances, live iterators
    last    \* the call made last: operation, receiver, argument, outcome, event log

vars == <<heap, last>>

-----------------------------------------------------------------------------
(* JavaScript values *)

Falsy == {"null", "undefined", "false", "''", "0"}

\* The primitive values an element can be.
Val == Falsy \cup {"1"}

\* The element values the caller's data is drawn from in Spec.
Elem == {"0", "1"}

\* ToBoolean, as applied by `if (x)` and `!x`.
Truthy(v) == v \notin Falsy

Bool(b) == IF b THEN "true" ELSE "false"

Num(n) == ToString(n)

\* Sequences over S of length at most n.
SeqUpTo(S, n) == UNION {[1..k -> S] : k \in 0..n}

IsInjective(s) == \A i, j \in 1..Len(s) : s[i] = s[j] => i = j

-----------------------------------------------------------------------------
(* Caller-supplied callbacks (predicates, selectors, key selectors).       *)
(* "null" and "undefined" are the two non-function arguments.              *)

Functions == {"item", "index"}

\* Selectors that hand back a sub-sequence, for mapMany.
ManySelectors == {"twice", "repeat"}

\* A callback that throws for some elements: x => { if (x) throw E; return x; }
Throwing == {"throwing"}

Callbacks == Functions \cup Throwing \cup {"null", "undefined"}

\* cb(item, index): [err, value, array]. A selector that returns a fresh array
\* has value "object" and array the elements the array holds.
Call(cb, item, index) ==
    CASE cb = "item"   -> [err |-> "none", value |-> item, array |-> <<>>]
                                                          \* x => x
      [] cb = "index"  -> [err |-> "none", value |-> Num(index), array |-> <<>>]
                                                          \* (x, i) => i
      [] cb = "throwing" ->
            [err |-> IF Truthy(item) THEN "E" ELSE "none",
             value |-> IF Truthy(item) THEN "undefined" ELSE item, array |-> <<>>]
      [] cb = "twice"  -> [err |-> "none", value |-> "object", array |-> <<item, item>>]
                                                          \* x => [x, x]
      [] cb = "repeat" -> [err |-> "none", value |-> "object",
                           array |-> [k \in 1..index |-> item]]
                                                          \* (x, i) => Array(i).fill(x)
      [] OTHER         -> [err |-> "TypeError", value |-> "undefined", array |-> <<>>]
                                                          \* not a function

-----------------------------------------------------------------------------
(* The heap.                                                               *)
(*   [kind: "Array" | "Set" | "Map", elems]      a built-in collection     *)
(*   [kind: "Object", props]                     a plain object, no        *)
(*                                               [Symbol.iterator]; props  *)
(*                                               its own enumerable        *)
(*                                               properties as <<key,      *)
(*                                               value>> in creation order *)
(*   [kind: "Generator", elems, pos, closed]     a caller's generator      *)
(*                                               object: (function*(){..})()*)
(*   [kind: "Iterable", _source]                 an instance of the class  *)
(*   [kind: "ArrayIterator", arr, pos, done]     a collection's iterator   *)
(*   [kind: "Stage", body, src, cb, arg, state, index, it, inner, set]     *)
(*                                               a generator object made   *)
(*                                               by a combinator's         *)
(*                                               function* closure; it the *)
(*                                               iterator its loop or its  *)
(*                                               yield* draws from, inner  *)
(*                                               the sub-sequence iterator *)
(*                                               of mapMany's yield*       *)
(* A machine m = [heap, log] threads the heap and the event log through    *)
(* one call.                                                               *)

Collections == {"Array", "Set", "Map"}

Machine(h) == [heap |-> h, log |-> <<>>]

Emit(m, e) == [m EXCEPT !.log = Append(@, e)]

Event(ev, id, value, index, cb) ==
    [ev |-> ev, id |-> id, value |-> value, index |-> index, cb |-> cb]

Poke(m, id, obj) == [m EXCEPT !.heap[id] = obj]

Alloc(m, obj) == [m EXCEPT !.heap = Append(@, obj)]

\* What an iterator operation hands back: the machine, the IteratorResult
\* {done, value}, and the error thrown instead, if any.
Result(m, done, value, err) ==
    [m |-> m, done |-> done, value |-> value, err |-> err]

\* const x = e; ...: evaluate e once and carry on with its value.
Bind(e, F(_)) == CHOOSE y \in {F(x) : x \in {e}} : TRUE

\* The function values a constructor can be given.
\*   [body: "returns", ref]     () => data         (the caller's object)
\*   [body: "generator", elems] function* () { yield e1; yield e2; ... }
\*   [body: "filter" | "map" | "distinct" | "mapMany", src, cb]
\*                             the function* closure of a combinator,
\*                             src naming the instance whose _source it holds
\*   [body: "concat", src, arg]  the closure of concat, arg its `other`
\*   [body: "keys" | "values", arg]
\*                             the closure of the static keys and values,
\*                             arg their `obj`
\* A captured argument is null, undefined or a reference to a heap object.
Arg(t, ref) == [t |-> t, ref |-> ref]

NoArg == Arg("undefined", 0)

UserFunction(body, ref, elems) ==
    [body |-> body, ref |-> ref, elems |-> elems, src |-> 0, cb |-> "undefined",
     arg |-> NoArg]

Closure(body, src, cb) ==
    [body |-> body, ref |-> 0, elems |-> <<>>, src |-> src, cb |-> cb,
     arg |-> NoArg]

ClosureOver(body, src, arg) ==
    [body |-> body, ref |-> 0, elems |-> <<>>, src |-> src, cb |-> "undefined",
     arg |-> arg]

\* NewStage counting its index from one: cb(item, ++index).
NewStageFromOne(fn) ==
    [kind |-> "Stage", body |-> fn.body, src |-> fn.src, cb |-> fn.cb,
     state |-> "suspendedStart", index |-> 1, it |-> 0, set |-> {},
     arg |-> fn.arg, inner |-> 0]

NewStage(fn) ==
    [kind |-> "Stage", body |-> fn.body, src |-> fn.src, cb |-> fn.cb,
     state |-> "suspendedStart", index |-> 0, it |-> 0, set |-> {},
     arg |-> fn.arg, inner |-> 0]

NewGenerator(elems) ==
    [kind |-> "Generator", elems |-> elems, pos |-> 0, closed |-> FALSE]

\* for (const key in obj): the enumerable string keys of obj with their
\* values, integer-like keys first in ascending order, then the others in
\* creation order; nothing for null and undefined.
IntegerKeys == <<"0", "1">>

IsIntegerKey(k) == \E i \in 1..Len(IntegerKeys) : IntegerKeys[i] = k

ForIn(h, arg) ==
    IF arg.t # "object" THEN <<>>
    ELSE LET o == h[arg.ref]
         IN  CASE o.kind = "Array" ->
                     [i \in 1..Len(o.elems) |-> <<Num(i - 1), o.elems[i]>>]
               [] o.kind = "Object" ->
                     LET Named(k) == {i \in 1..Len(o.props) : o.props[i][1] = k}
                         At(k) == o.props[CHOOSE i \in Named(k) : TRUE]
                     IN  [i \in 1..Len(SelectSeq(IntegerKeys, LAMBDA k : Named(k) # {}))
                            |-> At(SelectSeq(IntegerKeys, LAMBDA k : Named(k) # {})[i])]
                         \o SelectSeq(o.props, LAMBDA e : ~IsIntegerKey(e[1]))
               [] o.kind = "Iterable" -> <<<<"_source", "object">>>>
               [] OTHER -> <<>>

RECURSIVE SymbolIterator(_, _), SourceIterator(_, _), IteratorNext(_, _),
          IteratorClose(_, _), StageLoop(_, _), Delegate(_, _), ConcatLoop(_, _)

\* InvokeSource for a producer that is spent by its first use, as when the
\* instance keeps the generator object of one call of its function* instead of
\* the function: every later traversal finds it finished.
InvokeSourceOnce(m, p) ==
    LET fn == m.heap[p]._source.fn
        m1 == Emit(m, Event("source", p, "undefined", 0, "undefined"))
        m2 == Poke(m1, p, [m1.heap[p] EXCEPT
                              !._source.fn = UserFunction("generator", 0, <<>>)])
    IN  CASE fn.body = "returns"   -> [m |-> m2, obj |-> fn.ref]
          [] fn.body = "generator" ->
                [m |-> Alloc(m2, NewGenerator(fn.elems)), obj |-> Len(m2.heap) + 1]
          [] OTHER ->
                [m |-> Alloc(m2, NewStage(fn)), obj |-> Len(m2.heap) + 1]

\* InvokeSource for a distinct whose set of seen keys belongs to the instance
\* and not to the traversal (const set = new Set() outside the function*):
\* a new traversal starts from the keys the live ones have recorded.
InvokeSourceSharingSet(m, p) ==
    LET fn == m.heap[p]._source.fn
        m1 == Emit(m, Event("source", p, "undefined", 0, "undefined"))
        shared == UNION {m.heap[g].set : g \in {i \in 1..Len(m.heap) :
                                                   /\ m.heap[i].kind = "Stage"
                                                   /\ m.heap[i].src = fn.src
                                                   /\ m.heap[i].body = fn.body}}
    IN  CASE fn.body = "returns"   -> [m |-> m1, obj |-> fn.ref]
          [] fn.body = "generator" ->
                [m |-> Alloc(m1, NewGenerator(fn.elems)), obj |-> Len(m1.heap) + 1]
          [] OTHER ->
                [m |-> Alloc(m1, [NewStage(fn) EXCEPT !.set = shared]),
                 obj |-> Len(m1.heap) + 1]

\* InvokeSource for a combinator whose index belongs to the instance and not
\* to the traversal (let index = 0 outside the function*): a new traversal
\* goes on counting where the live ones stand.
InvokeSourceSharingIndex(m, p) ==
    LET fn == m.heap[p]._source.fn
        m1 == Emit(m, Event("source", p, "undefined", 0, "undefined"))
        live == {m.heap[g].index : g \in {i \in 1..Len(m.heap) :
                                               /\ m.heap[i].kind = "Stage"
                                               /\ m.heap[i].src = fn.src
                                               /\ m.heap[i].body = fn.body}}
        shared == IF live = {} THEN 0 ELSE CHOOSE n \in live : \A k \in live : k <= n
    IN  CASE fn.body = "returns"   -> [m |-> m1, obj |-> fn.ref]
          [] fn.body = "generator" ->
                [m |-> Alloc(m1, NewGenerator(fn.elems)), obj |-> Len(m1.heap) + 1]
          [] OTHER ->
                [m |-> Alloc(m1, [NewStage(fn) EXCEPT !.index = shared]),
                 obj |-> Len(m1.heap) + 1]

\* source(): invoke the function the instance p was constructed from.
\* Returns the machine and the object the function returned.
InvokeSource(m, p) ==
    LET fn == m.heap[p]._source.fn
        m1 == Emit(m, Event("source", p, "undefined", 0, "undefined"))
    IN  CASE fn.body = "returns"   -> [m |-> m1, obj |-> fn.ref]
          [] fn.body = "generator" ->
                [m |-> Alloc(m1, NewGenerator(fn.elems)), obj |-> Len(m1.heap) + 1]
          [] OTHER ->
                [m |-> Alloc(m1, NewStage(fn)), obj |-> Len(m1.heap) + 1]

\* SymbolIterator for a class without [Symbol.iterator](): an instance is not
\* iterable itself.
SymbolIteratorOfData(m, obj) ==
    LET o == m.heap[obj]
    IN  CASE o.kind \in Collections ->
                [m  |-> Alloc(m, [kind |-> "ArrayIterator", arr |-> obj,
                                  pos |-> 0, done |-> FALSE]),
                 it |-> Len(m.heap) + 1, err |-> "none"]
          [] o.kind \in {"Generator", "Stage", "ArrayIterator"} ->
                [m |-> m, it |-> obj, err |-> "none"]
          [] OTHER -> [m |-> m, it |-> 0, err |-> "TypeError"]

\* obj[Symbol.iterator]() for a heap object exposing the iteration capability.
\* Returns the machine and the iterator's heap id, or the TypeError thrown when
\* obj has no such method.
SymbolIterator(m, obj) ==
    LET o == m.heap[obj]
    IN  CASE o.kind \in Collections ->
                [m  |-> Alloc(m, [kind |-> "ArrayIterator", arr |-> obj,
                                  pos |-> 0, done |-> FALSE]),
                 it |-> Len(m.heap) + 1, err |-> "none"]
          [] o.kind \in {"Generator", "Stage", "ArrayIterator"} ->
                [m |-> m, it |-> obj, err |-> "none"]
          [] o.kind = "Iterable" -> SourceIterator(m, obj)
          [] OTHER -> [m |-> m, it |-> 0, err |-> "TypeError"]

\* SourceIterator with a wrapper that probes the function before using it:
\* () => (source(), source()[Symbol.iterator]()).
SourceIteratorTwice(m, p) ==
    LET s == m.heap[p]._source
        m1 == Emit(m, Event("iterate", p, "undefined", 0, "undefined"))
    IN  IF s.lazy
        THEN Bind(InvokeSource(InvokeSource(m1, p).m, p),
                  LAMBDA r : SymbolIterator(r.m, r.obj))
        ELSE SymbolIterator(m1, s.ref)

\* SourceIterator of an instance that keeps what its function returned in
\* place of the function: this._source = source().
SourceIteratorKeeping(m, p) ==
    LET s == m.heap[p]._source
        m1 == Emit(m, Event("iterate", p, "undefined", 0, "undefined"))
    IN  IF s.lazy
        THEN Bind(InvokeSource(m1, p), LAMBDA r :
                 SymbolIterator(IF s.fn.body = "returns"
                                THEN Poke(r.m, p, [r.m.heap[p] EXCEPT
                                                      !._source.lazy = FALSE,
                                                      !._source.ref = r.obj])
                                ELSE r.m,
                                r.obj))
        ELSE SymbolIterator(m1, s.ref)

\* this._source[Symbol.iterator]() of the instance p.
SourceIterator(m, p) ==
    LET s == m.heap[p]._source
        m1 == Emit(m, Event("iterate", p, "undefined", 0, "undefined"))
    IN  IF s.lazy
        THEN Bind(InvokeSource(m1, p), LAMBDA r : SymbolIterator(r.m, r.obj))
        ELSE SymbolIterator(m1, s.ref)

\* IteratorClose: call the iterator's return(), if it has one. A generator
\* suspended at a yield inside a for-of loop closes the loop's iterator, one
\* suspended inside a yield* hands the return() on to the iterator it delegates
\* to (mapMany's sits inside both).
IteratorClose(m, it) ==
    LET o == m.heap[it]
        returned == Emit(m, Event("return", it, "undefined", 0, "undefined"))
    IN  CASE o.kind = "ArrayIterator" -> m
          [] o.kind = "Generator" -> Poke(returned, it, [o EXCEPT !.closed = TRUE])
          [] o.kind = "Stage" ->
                Bind(IF o.state = "suspendedYield" /\ o.it # 0
                     THEN IteratorClose(IF o.inner # 0
                                        THEN IteratorClose(returned, o.inner)
                                        ELSE returned,
                                        o.it)
                     ELSE returned,
                     LAMBDA m2 : Poke(m2, it, [m2.heap[it] EXCEPT !.state = "completed"]))

\* SetAdd forgetting the key.
SetAddNothing(set, key) == set

\* set.add(key)
SetAdd(set, key) == set \cup {key}

\* Yielded by a body that hands every item on unchanged.
YieldedItem(body, item, c) == item

\* What the body of a combinator yields for an item whose callback result is
\* c: `yield selector(item, index++)` in map, `yield item` in the others.
Yielded(body, item, c) == IF body = "map" THEN c.value ELSE item

\* Propagated by a body that wraps what its callback throws:
\* try { ... } catch (e) { throw new TypeError(e); }
PropagatedWrapped(err) == "TypeError"

\* What leaves a combinator's generator when its callback throws err: the
\* body has no try statement, so err itself.
Propagated(err) == err

\* The body of a combinator's function*, from the head of its for-of loop to
\* its next yield (or its end).
StageLoop(m, g) ==
    Bind(IteratorNext(m, m.heap[g].it), LAMBDA r :
        LET o == m.heap[g]
            c == Call(o.cb, r.value, o.index)
            m1 == Emit(r.m, Event("call", g, r.value, o.index, o.cb))
            o1 == [r.m.heap[g] EXCEPT !.index = @ + 1]
            key == c.value
            yield(v, obj) ==
                Result(Emit(Poke(m1, g, [obj EXCEPT !.state = "suspendedYield"]),
                            Event("yield", g, v, 0, "undefined")),
                       FALSE, v, "none")
        IN  IF r.err # "none"
            THEN Result(Poke(r.m, g, [r.m.heap[g] EXCEPT !.state = "completed"]),
                        TRUE, "undefined", r.err)
            ELSE IF r.done
            THEN Result(Emit(Poke(r.m, g, [r.m.heap[g] EXCEPT !.state = "completed"]),
                             Event("done", g, "undefined", 0, "undefined")),
                        TRUE, "undefined", "none")
            ELSE IF c.err # "none"
            THEN Bind(IteratorClose(m1, o.it), LAMBDA m2 :
                     Result(Poke(m2, g, [o1 EXCEPT !.state = "completed"]),
                            TRUE, "undefined", Propagated(c.err)))
            ELSE CASE o.body = "filter" ->
                        IF Truthy(c.value) THEN yield(Yielded(o.body, r.value, c), o1)
                        ELSE StageLoop(Poke(m1, g, o1), g)
                   [] o.body = "map" -> yield(Yielded(o.body, r.value, c), o1)
                   [] o.body = "distinct" ->
                        IF key \notin o.set
                        THEN yield(Yielded(o.body, r.value, c),
                                   [o1 EXCEPT !.set = SetAdd(@, key)])
                        ELSE StageLoop(Poke(m1, g, o1), g)
                   [] o.body = "mapMany" ->
                        IF c.value # "object"
                        THEN Bind(IteratorClose(m1, o.it), LAMBDA m2 :
                                 Result(Poke(m2, g, [o1 EXCEPT !.state = "completed"]),
                                        TRUE, "undefined", "TypeError"))
                        ELSE Bind(SymbolIterator(Alloc(m1, [kind |-> "Array",
                                                            elems |-> c.array]),
                                                 Len(m1.heap) + 1),
                                  LAMBDA s :
                                      Delegate(Poke(s.m, g, [o1 EXCEPT !.inner = s.it]), g)))

\* Delegate leaving the sub-sequence after its first element, as a plain
\* yield of that element would.
DelegateOnce(m, g) ==
    Bind(IteratorNext(m, m.heap[g].inner), LAMBDA r :
        IF r.done
        THEN StageLoop(Poke(r.m, g, [r.m.heap[g] EXCEPT !.inner = 0]), g)
        ELSE Result(Emit(Poke(r.m, g, [r.m.heap[g] EXCEPT !.state = "suspendedYield",
                                                          !.inner = 0]),
                         Event("yield", g, r.value, 0, "undefined")),
                    FALSE, r.value, "none"))

\* yield* <sub-sequence> of mapMany, from one yield to the next; at the end of
\* the sub-sequence the for-of loop goes on.
Delegate(m, g) ==
    Bind(IteratorNext(m, m.heap[g].inner), LAMBDA r :
        IF r.err # "none"
        THEN Bind(IteratorClose(r.m, r.m.heap[g].it), LAMBDA m2 :
                 Result(Poke(m2, g, [m2.heap[g] EXCEPT !.state = "completed"]),
                        TRUE, "undefined", r.err))
        ELSE IF r.done
        THEN StageLoop(Poke(r.m, g, [r.m.heap[g] EXCEPT !.inner = 0]), g)
        ELSE Result(Emit(Poke(r.m, g, [r.m.heap[g] EXCEPT !.state = "suspendedYield"]),
                         Event("yield", g, r.value, 0, "undefined")),
                    FALSE, r.value, "none"))

\* ConcatLoop ending with its first yield*: function* () { yield* src; }.
ConcatLoopSrcOnly(m, g) ==
    Bind(IteratorNext(m, m.heap[g].it), LAMBDA r :
        IF r.err # "none"
        THEN Result(Poke(r.m, g, [r.m.heap[g] EXCEPT !.state = "completed"]),
                    TRUE, "undefined", r.err)
        ELSE IF ~r.done
        THEN Result(Emit(Poke(r.m, g, [r.m.heap[g] EXCEPT !.state = "suspendedYield"]),
                         Event("yield", g, r.value, 0, "undefined")),
                    FALSE, r.value, "none")
        ELSE Result(Emit(Poke(r.m, g, [r.m.heap[g] EXCEPT !.state = "completed"]),
                         Event("done", g, "undefined", 0, "undefined")),
                    TRUE, "undefined", "none"))

\* yield* src; yield* other; of concat, from one yield to the next. index
\* counts the yield* statements that have run to their end.
ConcatLoop(m, g) ==
    Bind(IteratorNext(m, m.heap[g].it), LAMBDA r :
        LET o == r.m.heap[g]
            thrown(mm, err) ==
                Result(Poke(mm, g, [mm.heap[g] EXCEPT !.state = "completed"]),
                       TRUE, "undefined", err)
        IN  IF r.err # "none" THEN thrown(r.m, r.err)
            ELSE IF ~r.done
            THEN Result(Emit(Poke(r.m, g, [o EXCEPT !.state = "suspendedYield"]),
                             Event("yield", g, r.value, 0, "undefined")),
                        FALSE, r.value, "none")
            ELSE IF o.index > 0
            THEN Result(Emit(Poke(r.m, g, [o EXCEPT !.state = "completed"]),
                             Event("done", g, "undefined", 0, "undefined")),
                        TRUE, "undefined", "none")
            ELSE IF o.arg.t # "object" THEN thrown(r.m, "TypeError")
            ELSE Bind(SymbolIterator(r.m, o.arg.ref), LAMBDA s :
                     IF s.err # "none" THEN thrown(s.m, s.err)
                     ELSE ConcatLoop(Poke(s.m, g, [s.m.heap[g] EXCEPT
                                                      !.it = s.it, !.index = 1]), g)))

\* ForInNext yielding the key in values as well: yield key for yield obj[key].
ForInNextKey(m, g) ==
    LET o == m.heap[g]
        entries == ForIn(m.heap, o.arg)
        v == entries[o.index + 1][1]
    IN  IF o.index < Len(entries)
        THEN Result(Emit(Poke(m, g, [o EXCEPT !.state = "suspendedYield",
                                               !.index = @ + 1]),
                         Event("yield", g, v, 0, "undefined")),
                    FALSE, v, "none")
        ELSE Result(Emit(Poke(m, g, [o EXCEPT !.state = "completed"]),
                         Event("done", g, "undefined", 0, "undefined")),
                    TRUE, "undefined", "none")

\* for (const key in obj) { yield key; } of keys and { yield obj[key]; } of
\* values, from one yield to the next. index counts the keys visited.
ForInNext(m, g) ==
    LET o == m.heap[g]
        entries == ForIn(m.heap, o.arg)
        v == IF o.body = "keys" THEN entries[o.index + 1][1] ELSE entries[o.index + 1][2]
    IN  IF o.index < Len(entries)
        THEN Result(Emit(Poke(m, g, [o EXCEPT !.state = "suspendedYield",
                                               !.index = @ + 1]),
                         Event("yield", g, v, 0, "undefined")),
                    FALSE, v, "none")
        ELSE Result(Emit(Poke(m, g, [o EXCEPT !.state = "completed"]),
                         Event("done", g, "undefined", 0, "undefined")),
                    TRUE, "undefined", "none")

\* it.next()
IteratorNext(m, it) ==
    LET o == m.heap[it]
        finished == Result(Emit(m, Event("done", it, "undefined", 0, "undefined")),
                           TRUE, "undefined", "none")
    IN  CASE o.kind = "ArrayIterator" ->
                IF o.done THEN finished
                ELSE IF o.pos < Len(m.heap[o.arr].elems)
                THEN Result(Emit(Poke(m, it, [o EXCEPT !.pos = @ + 1]),
                                 Event("yield", it, m.heap[o.arr].elems[o.pos + 1],
                                       0, "undefined")),
                            FALSE, m.heap[o.arr].elems[o.pos + 1], "none")
                ELSE Result(Emit(Poke(m, it, [o EXCEPT !.done = TRUE]),
                                 Event("done", it, "undefined", 0, "undefined")),
                            TRUE, "undefined", "none")
          [] o.kind = "Generator" ->
                IF o.closed THEN finished
                ELSE IF o.pos < Len(o.elems)
                THEN Result(Emit(Poke(m, it, [o EXCEPT !.pos = @ + 1]),
                                 Event("yield", it, o.elems[o.pos + 1], 0, "undefined")),
                            FALSE, o.elems[o.pos + 1], "none")
                ELSE Result(Emit(Poke(m, it, [o EXCEPT !.closed = TRUE]),
                                 Event("done", it, "undefined", 0, "undefined")),
                            TRUE, "undefined", "none")
          [] o.kind = "Stage" ->
                IF o.state = "completed" THEN finished
                ELSE IF o.body \in {"keys", "values"} THEN ForInNext(m, it)
                ELSE IF o.state = "suspendedStart"
                THEN Bind(SourceIterator(m, o.src), LAMBDA s :
                         IF s.err # "none"
                         THEN Result(Poke(s.m, it, [s.m.heap[it] EXCEPT !.state = "completed"]),
                                     TRUE, "undefined", s.err)
                         ELSE IF o.body = "concat"
                         THEN ConcatLoop(Poke(s.m, it, [s.m.heap[it] EXCEPT !.it = s.it]), it)
                         ELSE StageLoop(Poke(s.m, it, [s.m.heap[it] EXCEPT !.it = s.it]), it))
                ELSE IF o.body = "concat" THEN ConcatLoop(m, it)
                ELSE IF o.inner # 0 THEN Delegate(m, it)
                ELSE StageLoop(m, it)

-----------------------------------------------------------------------------
(* Values as the caller passes them to the constructor:                    *)
(*   [t: "null" | "undefined" | "number" | "boolean" | "string", prim]      *)
(*   [t: "object", ref]      a heap object                                  *)
(*   [t: "function", fn]     a function value                               *)

Primitive(t, prim) == [t |-> t, prim |-> prim, ref |-> 0, fn |-> UserFunction("returns", 0, <<>>)]

ObjectRef(id) == [t |-> "object", prim |-> "undefined", ref |-> id, fn |-> UserFunction("returns", 0, <<>>)]

FunctionValue(fn) == [t |-> "function", prim |-> "undefined", ref |-> 0, fn |-> fn]

NoValue == Primitive("undefined", "undefined")

\* typeof v
TypeOf(v) == IF v.t = "null" THEN "object" ELSE v.t

\* ToBoolean(v)
ToBoolean(v) ==
    CASE v.t \in {"null", "undefined"} -> FALSE
      [] v.t \in {"number", "boolean", "string"} -> Truthy(v.prim)
      [] OTHER -> TRUE

\* typeof v[Symbol.iterator] === 'function', for v other than null and undefined
HasSymbolIterator(h, v) ==
    CASE v.t = "string" -> TRUE
      [] v.t = "object" -> h[v.ref].kind # "Object"
      [] OTHER -> FALSE

-----------------------------------------------------------------------------
(* class Iterable<T> *)

NewIterable(lazy, ref, fn) ==
    [kind |-> "Iterable", _source |-> [lazy |-> lazy, ref |-> ref, fn |-> fn]]

\* What a method call hands back: the machine, "return" or "throw", the value
\* returned (or the error's name), and the array returned by items().
Outcome(m, ret, value, list) == [m |-> m, ret |-> ret, value |-> value, list |-> list]

\* What a call that builds an instance hands back: "return" with the new
\* instance or "throw" with the error's name, and the events of the call.
Made(obj) == [ret |-> "return", value |-> "undefined", obj |-> obj, log |-> <<>>]

Thrown(err, obj) == [ret |-> "throw", value |-> err, obj |-> obj, log |-> <<>>]

\* Construct without the `source &&` guard: reading null[Symbol.iterator]
\* throws a TypeError of the engine's instead.
ConstructUnguarded(h, source) ==
    IF TypeOf(source) = "function"
    THEN Made(NewIterable(TRUE, 0, source.fn))
    ELSE IF source.t \in {"null", "undefined"}
    THEN Thrown("TypeError", NewIterable(FALSE, 0, source.fn))
    ELSE IF HasSymbolIterator(h, source)
    THEN Made(NewIterable(FALSE, source.ref, source.fn))
    ELSE Thrown("ReferenceError", NewIterable(FALSE, 0, source.fn))

\* new Iterable(source)
Construct(h, source) ==
    IF TypeOf(source) = "function"
    THEN Made(NewIterable(TRUE, 0, source.fn))
    ELSE IF ToBoolean(source) /\ HasSymbolIterator(h, source)
    THEN Made(NewIterable(FALSE, source.ref, source.fn))
    ELSE Thrown("ReferenceError", NewIterable(FALSE, 0, source.fn))

RECURSIVE CountLoop(_, _, _), CountLoopPulls(_, _, _), Spread(_, _, _),
          SpreadPrepending(_, _, _),
          Scan(_, _, _, _, _), ScanToEnd(_, _, _, _, _)

\* CountLoop counting the pulls, the one that reports the end included.
CountLoopPulls(m, it, num) ==
    Bind(IteratorNext(m, it), LAMBDA r :
        IF r.err # "none" THEN Outcome(r.m, "throw", r.err, <<>>)
        ELSE IF r.done THEN Outcome(r.m, "return", Num(num + 1), <<>>)
        ELSE CountLoopPulls(r.m, it, num + 1))

\* for (const _ of this._source) { ++num; }
CountLoop(m, it, num) ==
    Bind(IteratorNext(m, it), LAMBDA r :
        IF r.err # "none" THEN Outcome(r.m, "throw", r.err, <<>>)
        ELSE IF r.done THEN Outcome(r.m, "return", Num(num), <<>>)
        ELSE CountLoop(r.m, it, num + 1))

\* Spread putting every element in front of the ones before it.
SpreadPrepending(m, it, acc) ==
    Bind(IteratorNext(m, it), LAMBDA r :
        IF r.err # "none" THEN Outcome(r.m, "throw", r.err, <<>>)
        ELSE IF r.done THEN Outcome(r.m, "return", "undefined", acc)
        ELSE SpreadPrepending(r.m, it, <<r.value>> \o acc))

\* [...this._source]
Spread(m, it, acc) ==
    Bind(IteratorNext(m, it), LAMBDA r :
        IF r.err # "none" THEN Outcome(r.m, "throw", r.err, <<>>)
        ELSE IF r.done THEN Outcome(r.m, "return", "undefined", acc)
        ELSE Spread(r.m, it, Append(acc, r.value)))

\* Scan that finds its answer and keeps pulling to the end of the source
\* before it hands the answer back.
ScanToEnd(m, it, cb, index, leave) ==
    Bind(IteratorNext(m, it), LAMBDA r :
        LET c == Call(cb, r.value, index)
            m1 == Emit(r.m, Event("call", 0, r.value, index, cb))
        IN  IF r.err # "none"
            THEN [m |-> r.m, hit |-> FALSE, value |-> "undefined", err |-> r.err]
            ELSE IF r.done
            THEN [m |-> r.m, hit |-> FALSE, value |-> "undefined", err |-> "none"]
            ELSE IF c.err # "none"
            THEN [m |-> IteratorClose(m1, it), hit |-> FALSE, value |-> "undefined",
                  err |-> c.err]
            ELSE IF Truthy(c.value) = leave
            THEN [m |-> CountLoop(m1, it, 0).m, hit |-> TRUE, value |-> r.value,
                  err |-> "none"]
            ELSE ScanToEnd(m1, it, cb, index + 1, leave))

\* for (const item of this._source) { if (<test of cb(item, index++)>) return ...; }
\* The loop leaves, closing the iterator, at the first item whose callback
\* result has truthiness `leave`; hit tells whether it left that way.
Scan(m, it, cb, index, leave) ==
    Bind(IteratorNext(m, it), LAMBDA r :
        LET c == Call(cb, r.value, index)
            m1 == Emit(r.m, Event("call", 0, r.value, index, cb))
        IN  IF r.err # "none"
            THEN [m |-> r.m, hit |-> FALSE, value |-> "undefined", err |-> r.err]
            ELSE IF r.done
            THEN [m |-> r.m, hit |-> FALSE, value |-> "undefined", err |-> "none"]
            ELSE IF c.err # "none"
            THEN [m |-> IteratorClose(m1, it), hit |-> FALSE, value |-> "undefined",
                  err |-> c.err]
            ELSE IF Truthy(c.value) = leave
            THEN [m |-> IteratorClose(m1, it), hit |-> TRUE, value |-> r.value,
                  err |-> "none"]
            ELSE Scan(m1, it, cb, index + 1, leave))

\* Count starting its counter at one: let count = 1.
CountFromOne(m, p) ==
    Bind(SourceIterator(m, p), LAMBDA s :
        IF s.err # "none" THEN Outcome(s.m, "throw", s.err, <<>>)
        ELSE CountLoop(s.m, s.it, 1))

Count(m, p) ==
    Bind(SourceIterator(m, p), LAMBDA s :
        IF s.err # "none" THEN Outcome(s.m, "throw", s.err, <<>>)
        ELSE CountLoop(s.m, s.it, 0))

Items(m, p) ==
    Bind(SourceIterator(m, p), LAMBDA s :
        IF s.err # "none" THEN Outcome(s.m, "throw", s.err, <<>>)
        ELSE Spread(s.m, s.it, <<>>))

\* First taking a falsy first value for an absent one: return value || null.
FirstOrNull(m, p, cb) ==
    IF Truthy(cb)
    THEN Bind(SourceIterator(m, p), LAMBDA s :
        IF s.err # "none" THEN Outcome(s.m, "throw", s.err, <<>>)
        ELSE Bind(Scan(s.m, s.it, cb, 0, TRUE), LAMBDA r :
                 IF r.err # "none" THEN Outcome(r.m, "throw", r.err, <<>>)
                 ELSE Outcome(r.m, "return", IF r.hit THEN r.value ELSE "null", <<>>)))
    ELSE Bind(SourceIterator(m, p), LAMBDA s :
        IF s.err # "none" THEN Outcome(s.m, "throw", s.err, <<>>)
        ELSE Bind(IteratorNext(s.m, s.it), LAMBDA r :
                 IF r.err # "none" THEN Outcome(r.m, "throw", r.err, <<>>)
                 ELSE Outcome(r.m, "return", IF r.done \/ ~Truthy(r.value) THEN "null" ELSE r.value, <<>>)))

\* First counting its index from one: filter(item, ++index).
FirstFromOne(m, p, cb) ==
    IF Truthy(cb)
    THEN Bind(SourceIterator(m, p), LAMBDA s :
        IF s.err # "none" THEN Outcome(s.m, "throw", s.err, <<>>)
        ELSE Bind(Scan(s.m, s.it, cb, 1, TRUE), LAMBDA r :
                 IF r.err # "none" THEN Outcome(r.m, "throw", r.err, <<>>)
                 ELSE Outcome(r.m, "return", IF r.hit THEN r.value ELSE "null", <<>>)))
    ELSE FirstOrNull(m, p, cb)

\* First taking the first element with a loop it leaves at once:
\* for (const item of this._source) { return item; } return null;
FirstClosing(m, p, cb) ==
    IF Truthy(cb)
    THEN Bind(SourceIterator(m, p), LAMBDA s :
        IF s.err # "none" THEN Outcome(s.m, "throw", s.err, <<>>)
        ELSE Bind(Scan(s.m, s.it, cb, 0, TRUE), LAMBDA r :
                 IF r.err # "none" THEN Outcome(r.m, "throw", r.err, <<>>)
                 ELSE Outcome(r.m, "return", IF r.hit THEN r.value ELSE "null", <<>>)))
    ELSE Bind(SourceIterator(m, p), LAMBDA s :
        IF s.err # "none" THEN Outcome(s.m, "throw", s.err, <<>>)
        ELSE Bind(IteratorNext(s.m, s.it), LAMBDA r :
                 IF r.err # "none" THEN Outcome(r.m, "throw", r.err, <<>>)
                 ELSE IF r.done THEN Outcome(r.m, "return", "null", <<>>)
                 ELSE Outcome(IteratorClose(r.m, s.it), "return", r.value, <<>>)))

First(m, p, cb) ==
    IF Truthy(cb)
    THEN Bind(SourceIterator(m, p), LAMBDA s :
        IF s.err # "none" THEN Outcome(s.m, "throw", s.err, <<>>)
        ELSE Bind(Scan(s.m, s.it, cb, 0, TRUE), LAMBDA r :
                 IF r.err # "none" THEN Outcome(r.m, "throw", r.err, <<>>)
                 ELSE Outcome(r.m, "return", IF r.hit THEN r.value ELSE "null", <<>>)))
    ELSE Bind(SourceIterator(m, p), LAMBDA s :
        IF s.err # "none" THEN Outcome(s.m, "throw", s.err, <<>>)
        ELSE Bind(IteratorNext(s.m, s.it), LAMBDA r :
                 IF r.err # "none" THEN Outcome(r.m, "throw", r.err, <<>>)
                 ELSE Outcome(r.m, "return", IF r.done THEN "null" ELSE r.value, <<>>)))

Some(m, p, cb) ==
    Bind(SourceIterator(m, p), LAMBDA s :
        IF s.err # "none" THEN Outcome(s.m, "throw", s.err, <<>>)
        ELSE Bind(Scan(s.m, s.it, cb, 0, TRUE), LAMBDA r :
                 IF r.err # "none" THEN Outcome(r.m, "throw", r.err, <<>>)
                 ELSE Outcome(r.m, "return", Bool(r.hit), <<>>)))

\* Every satisfied by one passing element.
EveryAny(m, p, cb) == Some(m, p, cb)

Every(m, p, cb) ==
    Bind(SourceIterator(m, p), LAMBDA s :
        IF s.err # "none" THEN Outcome(s.m, "throw", s.err, <<>>)
        ELSE Bind(Scan(s.m, s.it, cb, 0, FALSE), LAMBDA r :
                 IF r.err # "none" THEN Outcome(r.m, "throw", r.err, <<>>)
                 ELSE Outcome(r.m, "return", Bool(~r.hit), <<>>)))

\* this.filter(cb), this.distinct(cb), this.map(cb) for the instance p: every
\* one hands new Iterable(function* () { ... }) the closure over p's _source.
\* Filter leaving a missing predicate to be found when the items are pulled.
FilterUnchecked(h, p, cb) == Construct(h, FunctionValue(Closure("filter", p, cb)))

Filter(h, p, cb) ==
    IF ~Truthy(cb)
    THEN Thrown("ReferenceError", h[p])
    ELSE Construct(h, FunctionValue(Closure("filter", p, cb)))

Distinct(h, p, cb) ==
    IF ~Truthy(cb)
    THEN Thrown("ReferenceError", h[p])
    ELSE Construct(h, FunctionValue(Closure("distinct", p, cb)))

\* Map computing its result when it is called and keeping the values:
\* const done = [...this._source].map(selector);
\* return new Iterable(function* () { yield* done; });
MapCopying(h, p, cb) ==
    Construct(h, FunctionValue(UserFunction("generator", 0,
        [i \in 1..Len(Items(Machine(h), p).list) |->
            Call(cb, Items(Machine(h), p).list[i], i - 1).value])))

Map(h, p, cb) == Construct(h, FunctionValue(Closure("map", p, cb)))

MapMany(h, p, cb) == Construct(h, FunctionValue(Closure("mapMany", p, cb)))

\* Concat copying the receiver's elements when it is called:
\* const mine = [...this._source] ahead of the function*.
ConcatEager(h, p, other) ==
    [Construct(h, FunctionValue(ClosureOver("concat", p, other)))
        EXCEPT !.log = Items(Machine(h), p).m.log]

\* this.concat(other)
Concat(h, p, other) == Construct(h, FunctionValue(ClosureOver("concat", p, other)))

\* Iterable.empty(): new Iterable([]), in the heap that holds the new array.
Empty(h) == Construct(h, ObjectRef(Len(h)))

\* Iterable.keys(obj), Iterable.values(obj)
Keys(h, obj) == Construct(h, FunctionValue(ClosureOver("keys", 0, obj)))

Values(h, obj) == Construct(h, FunctionValue(ClosureOver("values", 0, obj)))

-----------------------------------------------------------------------------
(* The caller's program: one data object, then any calls on the class.     *)

\* The entries a Map iterates over: [key, value] pairs, each a distinct object.
Entries == {"[a,0]", "[b,1]"}

\* The objects the caller may hold before the first call, over the elements V.
DataObjects(V) ==
    {[kind |-> "Array", elems |-> e] : e \in SeqUpTo(V, MaxLen)}
    \cup {[kind |-> "Set", elems |-> e] : e \in {x \in SeqUpTo(V, MaxLen) : IsInjective(x)}}
    \cup {[kind |-> "Map", elems |-> e] : e \in {x \in SeqUpTo(Entries, MaxLen) : IsInjective(x)}}
    \cup {NewGenerator(e) : e \in SeqUpTo(V, MaxLen)}
    \cup {[kind |-> "Object", elems |-> <<>>, props |-> <<>>]}

\* The arguments the caller may hand to the constructor in heap h.
Sources(h) ==
    {Primitive("null", "null"), Primitive("undefined", "undefined"),
     Primitive("number", "1"), Primitive("number", "0"),
     Primitive("boolean", "true"), Primitive("string", "''")}
    \cup {ObjectRef(id) : id \in 1..Len(h)}
    \cup {FunctionValue(UserFunction("returns", 1, <<>>)),
          FunctionValue(UserFunction("generator", 0, h[1].elems))}

Instances(h) == {id \in 1..Len(h) : h[id].kind = "Iterable"}

\* The `other` the caller may hand to concat in heap h: null or any object.
Others(h) == {Arg("null", 0)} \cup {Arg("object", id) : id \in 1..Len(h)}

\* The `obj` the caller may hand to keys and values in heap h: null,
\* undefined or an object that is no instance of the class.
Objs(h) ==
    {Arg("null", 0), Arg("undefined", 0)}
    \cup {Arg("object", id) : id \in (1..Len(h)) \ Instances(h)}

\* An argument as the call record keeps it.
AsValue(arg) == IF arg.t = "object" THEN ObjectRef(arg.ref) ELSE Primitive(arg.t, arg.t)

\* The property names of the caller's key-value records, and the records:
\* { a: 0 }, { b: 1, 0: 1 }, { 1: 0, 0: 1 }, ...
PropertyKeys == {"a", "b", "0", "1"}

Records(V) ==
    {[kind |-> "Object", elems |-> <<>>, props |-> [i \in 1..Len(ks) |-> <<ks[i], vs[i]>>]] :
        <<ks, vs>> \in {kv \in SeqUpTo(PropertyKeys, MaxLen) \X SeqUpTo(V, MaxLen) :
                          IsInjective(kv[1]) /\ Len(kv[1]) = Len(kv[2])}}

Call0 ==
    [op |-> "none", target |-> 0, cb |-> "undefined", source |-> NoValue,
     ret |-> "return", value |-> "undefined", list |-> <<>>, log |-> <<>>,
     new |-> 0, pre |-> <<>>]

Init ==
    /\ heap \in {<<d>> : d \in DataObjects(Elem)}
    /\ last = Call0

\* The caller is between two calls.
Idle == last.op = "none"

\* A call that builds an instance, in a heap of fewer than max objects: made
\* is [ret, value, obj].
BuiltWithin(max, op, p, cb, source, made) ==
    /\ Idle
    /\ Len(heap) < max
    /\ \E r \in {made} :
         /\ heap' = IF r.ret = "return" THEN Append(heap, r.obj) ELSE heap
         /\ last' = [Call0 EXCEPT !.op = op, !.target = p, !.cb = cb,
                                  !.source = source,
                                  !.ret = r.ret, !.value = r.value,
                                  !.new = IF r.ret = "return" THEN Len(heap) + 1 ELSE 0,
                                  !.log = r.log, !.pre = heap]

Built(op, p, cb, source, made) == BuiltWithin(MaxHeap, op, p, cb, source, made)

\* A call that traverses: ran is [m, ret, value, list]. The iterators the call
\* made are unreachable when it returns.
Ran(op, p, cb, ran) ==
    /\ Idle
    /\ \E r \in {ran} :
         /\ heap' = SubSeq(r.m.heap, 1, Len(heap))
         /\ last' = [Call0 EXCEPT !.op = op, !.target = p, !.cb = cb,
                                  !.ret = r.ret, !.value = r.value, !.list = r.list,
                                  !.log = r.m.log, !.pre = heap]

constructor == \E source \in Sources(heap) :
    Built("constructor", 0, "undefined", source, Construct(heap, source))

filter == \E p \in Instances(heap), cb \in Callbacks :
    Built("filter", p, cb, NoValue, Filter(heap, p, cb))

distinct == \E p \in Instances(heap), cb \in Callbacks :
    Built("distinct", p, cb, NoValue, Distinct(heap, p, cb))

map == \E p \in Instances(heap), cb \in Callbacks :
    Built("map", p, cb, NoValue, Map(heap, p, cb))

mapMany == \E p \in Instances(heap), cb \in ManySelectors \cup {"null", "undefined"} :
    Built("mapMany", p, cb, NoValue, MapMany(heap, p, cb))

concat == \E p \in Instances(heap), other \in Others(heap) :
    Built("concat", p, "undefined", AsValue(other), Concat(heap, p, other))

keys == \E obj \in Objs(heap) :
    Built("keys", 0, "undefined", AsValue(obj), Keys(heap, obj))

values == \E obj \in Objs(heap) :
    Built("values", 0, "undefined", AsValue(obj), Values(heap, obj))

\* Iterable.empty(): the array literal and the instance over it are both new.
empty ==
    /\ Idle
    /\ Len(heap) + 1 < MaxHeap
    /\ \E r \in {Empty(Append(heap, [kind |-> "Array", elems |-> <<>>]))} :
         /\ heap' = heap \o <<[kind |-> "Array", elems |-> <<>>], r.obj>>
         /\ last' = [Call0 EXCEPT !.op = "empty", !.ret = r.ret, !.value = r.value,
                                  !.source = ObjectRef(Len(heap) + 1),
                                  !.new = Len(heap) + 2, !.log = r.log, !.pre = heap]

count == \E p \in Instances(heap) :
    Ran("count", p, "undefined", Count(Machine(heap), p))

items == \E p \in Instances(heap) :
    Ran("items", p, "undefined", Items(Machine(heap), p))

first == \E p \in Instances(heap), cb \in Functions \cup Throwing \cup {"undefined"} :
    Ran("first", p, cb, First(Machine(heap), p, cb))

some == \E p \in Instances(heap), cb \in Callbacks :
    Ran("some", p, cb, Some(Machine(heap), p, cb))

every == \E p \in Instances(heap), cb \in Callbacks :
    Ran("every", p, cb, Every(Machine(heap), p, cb))

\* The iterators the caller holds in heap h: the ones no generator draws from.
Held(h) ==
    {id \in 1..Len(h) :
        /\ h[id].kind \in {"Stage", "ArrayIterator", "Generator"}
        /\ \A g \in 1..Len(h) : h[g].kind = "Stage" => h[g].it # id /\ h[g].inner # id}

\* const it = p[Symbol.iterator](): the caller starts a traversal by hand and
\* keeps the iterator, holding at most max of them.
IteratorWithin(max, p) ==
    /\ Idle
    /\ Cardinality(Held(heap)) < max
    /\ \E r \in {SourceIterator(Machine(heap), p)} :
         /\ r.err = "none"
         /\ heap' = r.m.heap
         /\ last' = [Call0 EXCEPT !.op = "iterator", !.target = p, !.new = r.it,
                                  !.log = r.m.log, !.pre = heap]

iterator == \E p \in Instances(heap) : IteratorWithin(MaxIterators, p)

\* it.next() on an iterator the caller holds; list is <<value>>, or empty at
\* the end.
next == \E it \in Held(heap) :
    /\ Idle
    /\ \E r \in {IteratorNext(Machine(heap), it)} :
         /\ heap' = r.m.heap
         /\ last' = [Call0 EXCEPT !.op = "next", !.target = it,
                                  !.ret = IF r.err = "none" THEN "return" ELSE "throw",
                                  !.value = IF r.err = "none" THEN r.value ELSE r.err,
                                  !.list = IF r.done THEN <<>> ELSE <<r.value>>,
                                  !.log = r.m.log, !.pre = heap]

\* The caller takes the outcome of its call and goes on.
Return ==
    /\ ~Idle
    /\ last' = Call0
    /\ UNCHANGED heap

Next ==
    \/ Return
    \/ constructor
    \/ filter
    \/ distinct
    \/ map
    \/ mapMany
    \/ concat
    \/ count
    \/ items
    \/ first
    \/ some
    \/ every

Spec == Init /\ [][Next]_vars

\* The caller's data holding every primitive value, the falsy ones and null
\* included, wrapped and asked for its first element.
InitValues ==
    /\ heap \in {<<d>> : d \in DataObjects(Val)}
    /\ last = Call0

NextValues ==
    \/ Return
    \/ constructor
    \/ first

SpecValues == InitValues /\ [][NextValues]_vars

\* The static constructors: the caller's data or a key-value record, the
\* sequences made from nothing and from an object's keys and values, and
\* their traversals.
InitStatic ==
    /\ heap \in {<<d>> : d \in DataObjects(Elem) \cup Records(Elem)}
    /\ last = Call0

NextStatic ==
    \/ Return
    \/ constructor
    \/ empty
    \/ keys
    \/ values
    \/ count
    \/ items
    \/ first

SpecStatic == InitStatic /\ [][NextStatic]_vars

\* Iteration by hand: the caller wraps an array, derives a distinct sequence
\* and pulls from several iterators of it in any order.
InitIterators ==
    /\ heap \in {<<[kind |-> "Array", elems |-> e]>> : e \in SeqUpTo(Elem, MaxLen)}
    /\ last = Call0

NextIterators ==
    \/ Return
    \/ constructor
    \/ distinct
    \/ iterator
    \/ next

SpecIterators == InitIterators /\ [][NextIterators]_vars

\* Chained combinators: the sequence over the caller's array, the stages
\* s.filter(p) and s.map(f) built on it and on one another with callbacks that
\* return or throw, and their traversals by the class's methods and by hand.
thenFilter == \E p \in Instances(heap), cb \in Functions \cup Throwing :
    BuiltWithin(MaxChain, "filter", p, cb, NoValue, Filter(heap, p, cb))

thenMap == \E p \in Instances(heap), cb \in Functions \cup Throwing :
    BuiltWithin(MaxChain, "map", p, cb, NoValue, Map(heap, p, cb))

\* The caller traverses one sequence by hand, one traversal at a time.
iteratorAlone == \E p \in Instances(heap) : IteratorWithin(1, p)

InitPipelines ==
    /\ heap \in {<<a, Construct(<<a>>, ObjectRef(1)).obj>> :
                    a \in {[kind |-> "Array", elems |-> e] : e \in SeqUpTo(Elem, MaxLen)}}
    /\ last = Call0

NextPipelines ==
    \/ Return
    \/ thenFilter
    \/ thenMap
    \/ count
    \/ items
    \/ first
    \/ some
    \/ every
    \/ iteratorAlone
    \/ next

SpecPipelines == InitPipelines /\ [][NextPipelines]_vars

\* Interleaved traversals: the sequence over the caller's array, one stage
\* s.filter(p) or s.map(f) on it, and up to MaxIterators traversals of them
\* held by hand and advanced in any order.
NextInterleaved ==
    \/ Return
    \/ filter
    \/ map
    \/ iterator
    \/ next

SpecInterleaved == InitPipelines /\ [][NextInterleaved]_vars

\* The caller changes its data between the calls: array.push(v) while the
\* array has room, and obj[key] = v on a key-value record (a new property
\* while the record has room, or a new value for an old one).
Arrays(h) == {id \in 1..Len(h) : h[id].kind = "Array"}

PlainObjects(h) == {id \in 1..Len(h) : h[id].kind = "Object"}

push == \E a \in Arrays(heap), v \in Elem :
    /\ Idle
    /\ Len(heap[a].elems) < MaxLen
    /\ heap' = [heap EXCEPT ![a].elems = Append(@, v)]
    /\ last' = [Call0 EXCEPT !.op = "push", !.target = a, !.value = v, !.pre = heap]

\* obj[key] = v on the properties props.
Assigned(props, key, v) ==
    IF \E i \in 1..Len(props) : props[i][1] = key
    THEN [i \in 1..Len(props) |-> IF props[i][1] = key THEN <<key, v>> ELSE props[i]]
    ELSE Append(props, <<key, v>>)

assign == \E o \in PlainObjects(heap), key \in PropertyKeys, v \in Elem :
    /\ Idle
    /\ Len(Assigned(heap[o].props, key, v)) <= MaxLen
    /\ heap' = [heap EXCEPT ![o].props = Assigned(@, key, v)]
    /\ last' = [Call0 EXCEPT !.op = "assign", !.target = o, !.value = v, !.pre = heap]

InitMutation ==
    /\ heap \in {<<d>> : d \in {[kind |-> "Array", elems |-> e] : e \in SeqUpTo(Elem, MaxLen)}
                                \cup Records(Elem)}
    /\ last = Call0

NextMutation ==
    \/ Return
    \/ constructor
    \/ filter
    \/ distinct
    \/ map
    \/ mapMany
    \/ concat
    \/ keys
    \/ values
    \/ push
    \/ assign
    \/ items

SpecMutation == InitMutation /\ [][NextMutation]_vars

-----------------------------------------------------------------------------
(* Vocabulary of the properties *)

Traversals == {"count", "items", "first", "some", "every"}

\* The positions of the log's events of kind ev about object id.
EventsOf(log, ev, id) == {i \in 1..Len(log) : log[i].ev = ev /\ log[i].id = id}

\* The receiver of the last call, its stored producer, and the function it was
\* constructed from (when it was constructed from one).
Receiver == last.pre[last.target]

IsLazy(h, p) == h[p].kind = "Iterable" /\ h[p]._source.lazy

\* The instance p was returned by filter, map or distinct.
IsDerived(h, p) ==
    IsLazy(h, p) /\ h[p]._source.fn.body \in {"filter", "map", "distinct"}

\* The enumeration at the root of p is repeatable: p stands, through any chain
\* of wrappers, factory functions and stages, on no generator object and no
\* other single-pass iterator.
RECURSIVE Repeatable(_, _)
Repeatable(h, p) ==
    LET o == h[p]
    IN  CASE o.kind \in Collections \cup {"Object"} -> TRUE
          [] o.kind = "Iterable" ->
                IF ~o._source.lazy THEN Repeatable(h, o._source.ref)
                ELSE CASE o._source.fn.body = "returns" -> Repeatable(h, o._source.fn.ref)
                       [] o._source.fn.body \in {"generator", "keys", "values"} -> TRUE
                       [] o._source.fn.body = "concat" ->
                             /\ Repeatable(h, o._source.fn.src)
                             /\ o._source.fn.arg.t = "object"
                                    => Repeatable(h, o._source.fn.arg.ref)
                       [] OTHER -> Repeatable(h, o._source.fn.src)
          [] OTHER -> FALSE

\* What the caller sees of a call: return or throw, the value, the array.
Seen(r) == [ret |-> r.ret, value |-> r.value, list |-> r.list]

LastSeen == Seen(last)

\* What count(), items() and first() would hand back on p in heap h.
Observed(h, p) ==
    <<Seen(Count(Machine(h), p)), Seen(Items(Machine(h), p)),
      Seen(First(Machine(h), p, "undefined"))>>

\* The last call made once more, in heap h.
Again(h) ==
    CASE last.op = "count" -> Count(Machine(h), last.target)
      [] last.op = "items" -> Items(Machine(h), last.target)
      [] last.op = "first" -> First(Machine(h), last.target, last.cb)
      [] last.op = "some"  -> Some(Machine(h), last.target, last.cb)
      [] last.op = "every" -> Every(Machine(h), last.target, last.cb)

\* The elements a traversal of p started in heap h yields.
Elements(h, p) == Items(Machine(h), p).list

\* The iterator the last call's receiver handed to the call.
TopIterator == SourceIterator(Machine(last.pre), last.target).it

\* The elements the last call's receiver would have yielded to a full
\* traversal, had the call been items().
Offered == Items(Machine(last.pre), last.target)

\* The one-based positions of xs whose element, with its zero-based index,
\* the callback cb takes to a truthy value.
Passing(xs, cb) == {i \in 1..Len(xs) : Truthy(Call(cb, xs[i], i - 1).value)}

\* The callback cb returns, without throwing, for every element of xs with its
\* zero-based index.
Returns(xs, cb) == \A i \in 1..Len(xs) : Call(cb, xs[i], i - 1).err = "none"

Min(S) == CHOOSE i \in S : \A j \in S : i <= j

\* The subsequence of xs at the positions in S, in order.
RECURSIVE Pick(_, _, _)
Pick(xs, S, i) ==
    IF i > Len(xs) THEN <<>>
    ELSE (IF i \in S THEN <<xs[i]>> ELSE <<>>) \o Pick(xs, S, i + 1)

\* The positions of the log after position i.
After(log, i) == {j \in 1..Len(log) : j > i}

\* The receiver of the last call was returned by the combinator named body.
ReceiverIs(body) ==
    /\ last.target # 0
    /\ IsLazy(last.pre, last.target)
    /\ Receiver._source.fn.body = body

\* What the sequence the receiver was derived from offers to the last call:
\* the outcome of a full traversal of it, started where the call started.
Upstream == Items(Machine(last.pre), Receiver._source.fn.src)

\* selector(x_i, i) for every element of xs, i zero-based.
Selected(xs, cb) == [i \in 1..Len(xs) |-> Call(cb, xs[i], i - 1).value]

\* The one-based positions of xs whose key, keySelector(x_i, i), no earlier
\* position has.
FirstOccurrences(xs, cb) ==
    {i \in 1..Len(xs) :
        \A j \in 1..(i - 1) : Selected(xs, cb)[j] # Selected(xs, cb)[i]}

\* A full traversal of any object obj by machine m: [...obj].
Traverse(m, obj) ==
    Bind(SymbolIterator(m, obj), LAMBDA s :
        IF s.err # "none" THEN Outcome(s.m, "throw", s.err, <<>>)
        ELSE Spread(s.m, s.it, <<>>))

\* What concat's `other` offers to the last call: the outcome of a full
\* traversal of it, started when the receiver's source is exhausted.
OtherOffered ==
    Traverse([heap |-> Upstream.m.heap, log |-> <<>>], Receiver._source.fn.arg.ref)

\* The calls the generator of the last call's receiver made of its callback,
\* in the order it made them.
StageCalls == SelectSeq(last.log, LAMBDA e : e.ev = "call" /\ e.id = TopIterator)

\* The sub-sequence selector(x_i, i) hands back for every element of xs, and
\* the sub-sequences of a list laid end to end.
SubSequences(xs, cb) == [i \in 1..Len(xs) |-> Call(cb, xs[i], i - 1).array]

RECURSIVE Flatten(_)
Flatten(ss) == IF ss = <<>> THEN <<>> ELSE Head(ss) \o Flatten(Tail(ss))

-----------------------------------------------------------------------------
\* C1: constructing from null, undefined, or a value that is neither a function
\* nor exposes [Symbol.iterator] (the number 1, a boolean, a plain object) throws
\* a ReferenceError and makes no instance; constructing from an array, a map, a
\* set, another sequence, a generator object or a function makes an instance.
C1_ConstructorAcceptsIterablesAndFunctions ==
    last.op = "constructor" =>
        LET v == last.source
            kind == IF v.t = "object" THEN last.pre[v.ref].kind ELSE "none"
        IN  /\ (v.t \in {"null", "undefined", "number", "boolean"} \/ kind = "Object")
                => /\ last.ret = "throw"
                   /\ last.value = "ReferenceError"
                   /\ last.new = 0
                   /\ heap = last.pre
            /\ (v.t = "function"
                \/ kind \in {"Array", "Map", "Set", "Iterable", "Generator"})
                => /\ last.ret = "return"
                   /\ last.new = Len(last.pre) + 1
                   /\ heap = Append(last.pre, heap[last.new])
                   /\ heap[last.new].kind = "Iterable"

C1_Witness ==
    /\ last.op = "constructor"
    /\ last.source = Primitive("number", "1")
    /\ last.ret = "throw"

-----------------------------------------------------------------------------
\* C2: a function given to the constructor is not invoked by the constructor,
\* and every traversal started on the instance (by count, items, first, some,
\* every, or by a stage built on it) invokes it exactly once, at once, to get
\* the iterator of that traversal: in every call's log the invocations of an
\* instance's function are exactly its traversal starts, one for one, and the
\* call's receiver starts exactly one traversal.
C2_FunctionInvokedOncePerTraversal ==
    /\ last.op \notin Traversals => last.log = <<>>
    /\ last.op \in Traversals =>
        /\ Cardinality(EventsOf(last.log, "iterate", last.target)) = 1
        /\ \A q \in Instances(last.pre) :
            IF IsLazy(last.pre, q)
            THEN /\ \A i \in EventsOf(last.log, "iterate", q) :
                        i < Len(last.log) /\ i + 1 \in EventsOf(last.log, "source", q)
                 /\ \A i \in EventsOf(last.log, "source", q) :
                        i > 1 /\ i - 1 \in EventsOf(last.log, "iterate", q)
            ELSE EventsOf(last.log, "source", q) = {}

C2_Witness ==
    /\ last.op = "count"
    /\ IsLazy(last.pre, last.target)
    /\ Receiver._source.fn.body = "generator"
    /\ last.value = "2"
    /\ Cardinality(EventsOf(last.log, "source", last.target)) = 1

-----------------------------------------------------------------------------
\* C3: on a sequence derived by filter, map or distinct from a repeatable
\* source, a traversing call (count, items, first) leaves the outcome of every
\* later count, items and first as it was, and made once more it hands back the
\* same outcome.
C3_DerivedRetraversable ==
    (/\ last.op \in {"count", "items", "first"}
     /\ IsDerived(last.pre, last.target)
     /\ Repeatable(last.pre, last.target))
    => /\ Seen(Again(heap)) = LastSeen
       /\ Observed(heap, last.target) = Observed(last.pre, last.target)

C3_Witness ==
    /\ last.op = "count"
    /\ IsDerived(last.pre, last.target)
    /\ Receiver._source.fn.body = "distinct"
    /\ Repeatable(last.pre, last.target)
    /\ last.value = "1"
    /\ Len(Elements(last.pre, Receiver._source.fn.src)) = 2

-----------------------------------------------------------------------------
\* C4 as stated: on every instance, a generator object's wrapper included, a
\* second items() yields the elements the first one did.
C4_Original_EveryInstanceRetraversable ==
    (last.op = "items" /\ last.ret = "return") => Elements(heap, last.target) = last.list

\* C4 amended: on every instance whose root enumeration is repeatable, a
\* traversal leaves the heap as it found it and a second items() hands back
\* what the first did.
C4_RepeatableInstanceRetraversable ==
    (last.op = "items" /\ Repeatable(last.pre, last.target))
    => /\ heap = last.pre
       /\ Seen(Items(Machine(heap), last.target)) = LastSeen

C4_Witness ==
    /\ last.op = "items"
    /\ Repeatable(last.pre, last.target)
    /\ IsLazy(last.pre, last.target)
    /\ Len(last.list) = 2

-----------------------------------------------------------------------------
\* C5 as stated: on any instance, count() leaves the outcome of every later
\* count(), items() and first() unchanged.
C5_Original_CountSideEffectFree ==
    last.op = "count" => Observed(heap, last.target) = Observed(last.pre, last.target)

\* C5 amended: count() drains one traversal (its last pull reports the end) and
\* returns the number of elements that traversal yielded; on an instance whose
\* root enumeration is repeatable it leaves the outcome of every later count(),
\* items() and first() unchanged.
C5_CountDrainsAndKeepsRepeatable ==
    last.op = "count" =>
        /\ last.ret = "return" =>
            /\ last.value = Num(Len(Elements(last.pre, last.target)))
            /\ last.value = Num(Cardinality(EventsOf(last.log, "yield", TopIterator)))
            /\ last.log[Len(last.log)].ev = "done"
            /\ last.log[Len(last.log)].id = TopIterator
        /\ Repeatable(last.pre, last.target)
            => Observed(heap, last.target) = Observed(last.pre, last.target)

C5_Witness ==
    /\ last.op = "count"
    /\ last.value = "2"
    /\ Repeatable(last.pre, last.target)
    /\ Observed(heap, last.target)[1].value = "2"

-----------------------------------------------------------------------------
\* C6 as stated: first() returns null if and only if the traversal is
\* exhausted at once.
C6_Original_FirstNullIffExhausted ==
    (last.op = "first" /\ last.cb = "undefined" /\ Offered.ret = "return")
    => /\ last.ret = "return"
       /\ last.value = "null" <=> Offered.list = <<>>

\* C6 amended: first() returns the first element of the traversal as it was
\* produced, falsy or not, and null when the traversal is exhausted at once; it
\* throws in neither case. So it returns null if and only if the traversal is
\* exhausted at once or its first element is null itself.
C6_FirstReturnsFirstElementAsProduced ==
    (last.op = "first" /\ last.cb = "undefined" /\ Offered.ret = "return")
    => /\ last.ret = "return"
       /\ Offered.list # <<>> => last.value = Offered.list[1]
       /\ Offered.list = <<>> => last.value = "null"
       /\ last.value = "null" <=> (Offered.list = <<>> \/ Offered.list[1] = "null")

C6_Witness ==
    /\ last.op = "first"
    /\ last.cb = "undefined"
    /\ last.ret = "return"
    /\ last.value = "''"
    /\ Offered.list = <<"''", "1">>

-----------------------------------------------------------------------------
\* C7: first(predicate) returns the element at the smallest zero-based
\* position i at which predicate(item, i) holds, and null when there is none.
C7_FirstWithPredicate ==
    (last.op = "first" /\ last.cb \in Functions /\ Offered.ret = "return")
    => /\ last.ret = "return"
       /\ last.value = IF Passing(Offered.list, last.cb) = {} THEN "null"
                       ELSE Offered.list[Min(Passing(Offered.list, last.cb))]

C7_Witness ==
    /\ last.op = "first"
    /\ last.cb = "index"
    /\ Offered.list = <<"1", "0">>
    /\ last.value = "0"

-----------------------------------------------------------------------------
\* The one-based positions at which the last call's loop leaves early: the
\* passing elements for first and some, the failing ones for every.
Deciding ==
    IF last.op = "every"
    THEN (1..Len(Offered.list)) \ Passing(Offered.list, last.cb)
    ELSE Passing(Offered.list, last.cb)

\* C8: first(predicate), some and every stop at the deciding element. When
\* the element at one-based position k decides (the first that passes, for
\* first and some; the first that fails, for every), the call pulls exactly k
\* elements from its receiver's iterator and invokes its callback exactly k
\* times, and after that last invocation nothing more is pulled from any
\* iterator and no callback of any stage runs.
C8_ShortCircuit ==
    (/\ last.op \in {"first", "some", "every"}
     /\ last.cb \in Functions
     /\ Offered.ret = "return"
     /\ Deciding # {})
    => LET k == Min(Deciding)
           calls == EventsOf(last.log, "call", 0)
       IN  /\ Cardinality(calls) = k
           /\ Cardinality(EventsOf(last.log, "yield", TopIterator)) = k
           /\ \A i \in calls : last.log[i].index < k
           /\ \E i \in calls :
                /\ last.log[i].index = k - 1
                /\ \A j \in After(last.log, i) : last.log[j].ev = "return"

C8_Witness ==
    /\ last.op = "some"
    /\ last.cb = "item"
    /\ IsDerived(last.pre, last.target)
    /\ Receiver._source.fn.body = "map"
    /\ Len(Offered.list) = 2
    /\ Min(Deciding) = 1
    /\ last.value = "true"

-----------------------------------------------------------------------------
\* C9: the traversal of s.filter(predicate) yields exactly the elements x_i of
\* s at which predicate(x_i, i) holds, in their order in s, i being the
\* zero-based position in s and starting at 0 in every traversal (for a
\* predicate that returns at every element).
C9_FilterYieldsPassingInOrder ==
    (/\ last.op = "items"
     /\ IsLazy(last.pre, last.target)
     /\ Receiver._source.fn.body = "filter"
     /\ Items(Machine(last.pre), Receiver._source.fn.src).ret = "return"
     /\ Returns(Elements(last.pre, Receiver._source.fn.src), Receiver._source.fn.cb))
    => LET xs == Elements(last.pre, Receiver._source.fn.src)
       IN  /\ last.ret = "return"
           /\ last.list = Pick(xs, Passing(xs, Receiver._source.fn.cb), 1)

C9_Witness ==
    /\ last.op = "items"
    /\ IsLazy(last.pre, last.target)
    /\ Receiver._source.fn.body = "filter"
    /\ Receiver._source.fn.cb = "index"
    /\ Elements(last.pre, Receiver._source.fn.src) = <<"1", "0">>
    /\ last.list = <<"0">>

-----------------------------------------------------------------------------
\* C10: filter and distinct called with null or undefined throw a
\* ReferenceError from the call itself: no instance is made, the heap is as it
\* was, and the call starts no traversal and pulls no element.
C10_NullCallbackThrowsAtCall ==
    (last.op \in {"filter", "distinct"} /\ last.cb \in {"null", "undefined"})
    => /\ last.ret = "throw"
       /\ last.value = "ReferenceError"
       /\ last.new = 0
       /\ heap = last.pre
       /\ last.log = <<>>

C10_Witness ==
    /\ last.op = "distinct"
    /\ last.cb = "null"
    /\ last.ret = "throw"
    /\ Elements(last.pre, last.target) # <<>>

-----------------------------------------------------------------------------
\* C11: every operation that takes a required callback (filter, distinct, map,
\* mapMany, some, every) throws when called with null or undefined, at the
\* call: it hands nothing back and no traversal has started, whatever the
\* source holds.
C11_Original_RequiredCallbackCheckedAtCall ==
    (/\ last.op \in {"filter", "distinct", "map", "mapMany", "some", "every"}
     /\ last.cb \in {"null", "undefined"})
    => /\ last.ret = "throw"
       /\ last.new = 0
       /\ last.log = <<>>

-----------------------------------------------------------------------------
\* C12: a traversal of map(selector) yields one output per input element, in
\* input order: items() is the list of selector(x_i, i), i zero-based and
\* starting at 0 in every traversal, and count() is the number of inputs.
C12_MapOneToOne ==
    (/\ ReceiverIs("map")
     /\ last.cb = "undefined"
     /\ Receiver._source.fn.cb \in Functions
     /\ Upstream.ret = "return")
    => /\ last.op = "items" =>
            /\ last.ret = "return"
            /\ last.list = Selected(Upstream.list, Receiver._source.fn.cb)
       /\ last.op = "count" =>
            /\ last.ret = "return"
            /\ last.value = Num(Len(Upstream.list))

C12_Witness ==
    /\ ReceiverIs("map")
    /\ last.op = "items"
    /\ Receiver._source.fn.cb = "index"
    /\ Upstream.list = <<"1", "1">>
    /\ last.list = <<"0", "1">>

-----------------------------------------------------------------------------
\* C13: a traversal of mapMany(selector) yields the sub-sequences
\* selector(x_0, 0), selector(x_1, 1), ... laid end to end, in source order and
\* each in its own order; an element whose sub-sequence is empty adds nothing.
C13_MapManyConcatenates ==
    (/\ ReceiverIs("mapMany")
     /\ last.cb = "undefined"
     /\ Receiver._source.fn.cb \in ManySelectors
     /\ Upstream.ret = "return")
    => LET flat == Flatten(SubSequences(Upstream.list, Receiver._source.fn.cb))
       IN  /\ last.op = "items" => last.ret = "return" /\ last.list = flat
           /\ last.op = "count" => last.ret = "return" /\ last.value = Num(Len(flat))

C13_Witness ==
    /\ ReceiverIs("mapMany")
    /\ last.op = "items"
    /\ Receiver._source.fn.cb = "repeat"
    /\ Upstream.list = <<"0", "1">>
    /\ SubSequences(Upstream.list, "repeat") = <<<<>>, <<"1">>>>
    /\ last.list = <<"1">>

-----------------------------------------------------------------------------
\* C14: a traversal of distinct(keySelector) yields, in their original order,
\* exactly the elements that are the first occurrence of their key
\* keySelector(x_i, i): as many as there are distinct keys, no two of them
\* with the same key.
C14_DistinctYieldsFirstOccurrences ==
    (/\ ReceiverIs("distinct")
     /\ last.op = "items"
     /\ Receiver._source.fn.cb \in Functions
     /\ Upstream.ret = "return")
    => LET xs == Upstream.list
           cb == Receiver._source.fn.cb
           ks == Selected(xs, cb)
       IN  /\ last.ret = "return"
           /\ last.list = Pick(xs, FirstOccurrences(xs, cb), 1)
           /\ Len(last.list) = Cardinality({ks[i] : i \in 1..Len(xs)})

C14_Witness ==
    /\ ReceiverIs("distinct")
    /\ last.op = "items"
    /\ Receiver._source.fn.cb = "item"
    /\ Upstream.list = <<"1", "1">>
    /\ last.list = <<"1">>

-----------------------------------------------------------------------------
\* The generators of distinct sequences alive in the heap.
DistinctTraversals ==
    {g \in 1..Len(heap) : /\ heap[g].kind = "Stage"
                          /\ heap[g].body = "distinct"
                          /\ heap[g].cb \in Functions
                          /\ Items(Machine(heap), heap[g].src).ret = "return"}

\* C15: the set of seen keys belongs to one traversal of a distinct sequence.
\* Whatever other traversals of the same instance have run or are under way,
\* a traversal's set holds exactly the keys of the inputs it has consumed
\* itself, and what it has yielded followed by what it will still yield is the
\* first occurrence of every key: no element is skipped for a key another
\* traversal recorded. (A traversal its consumer closed before the end yields
\* nothing more.)
C15_SeenKeysPerTraversal ==
    \A g \in DistinctTraversals :
        LET xs == Elements(heap, heap[g].src)
            firsts == FirstOccurrences(xs, heap[g].cb)
            rest == Spread(Machine(heap), g, <<>>)
        IN  /\ heap[g].set = {Selected(xs, heap[g].cb)[i] : i \in 1..heap[g].index}
            /\ rest.ret = "return"
            /\ (heap[g].state # "completed" \/ heap[g].index = Len(xs)) =>
                  Pick(xs, firsts \cap (1..heap[g].index), 1) \o rest.list
                    = Pick(xs, firsts, 1)
            /\ heap[g].state = "completed" => rest.list = <<>>

C15_Witness ==
    /\ last.op = "next"
    /\ last.target \in DistinctTraversals
    /\ last.list # <<>>
    /\ \E g \in DistinctTraversals \ {last.target} :
         /\ heap[g].src = heap[last.target].src
         /\ heap[g].state = "suspendedYield"
         /\ Call(heap[g].cb, last.value, 0).value \in heap[g].set
         /\ heap[g].cb = "item"
         /\ heap[last.target].cb = "item"

-----------------------------------------------------------------------------
\* C16: some(predicate) returns true exactly when predicate(x_i, i) is truthy
\* for at least one element, every(predicate) exactly when it is for all of
\* them; over an empty source some returns false and every returns true.
C16_SomeAndEvery ==
    (/\ last.op \in {"some", "every"}
     /\ last.cb \in Functions
     /\ Offered.ret = "return")
    => LET passing == Passing(Offered.list, last.cb)
       IN  /\ last.ret = "return"
           /\ last.op = "some" => last.value = Bool(passing # {})
           /\ last.op = "every" => last.value = Bool(passing = 1..Len(Offered.list))
           /\ Offered.list = <<>> =>
                last.value = (IF last.op = "some" THEN "false" ELSE "true")

C16_Witness ==
    /\ last.op = "every"
    /\ last.cb = "item"
    /\ Offered.list = <<"1", "0">>
    /\ last.value = "false"

-----------------------------------------------------------------------------
\* C17: a traversal of concat(other) yields the elements of the receiver in
\* order and then the elements other yields, in order, when its turn comes;
\* the count is the sum of the two counts, and with an other that yields
\* nothing the result is exactly the receiver's elements.
C17_ConcatAppends ==
    (/\ ReceiverIs("concat")
     /\ last.cb = "undefined"
     /\ Receiver._source.fn.arg.t = "object"
     /\ Upstream.ret = "return"
     /\ OtherOffered.ret = "return")
    => /\ last.op = "items" =>
            /\ last.ret = "return"
            /\ last.list = Upstream.list \o OtherOffered.list
            /\ OtherOffered.list = <<>> => last.list = Upstream.list
       /\ last.op = "count" =>
            /\ last.ret = "return"
            /\ last.value = Num(Len(Upstream.list) + Len(OtherOffered.list))

C17_Witness ==
    /\ ReceiverIs("concat")
    /\ last.op = "items"
    /\ Receiver._source.fn.arg = Arg("object", 1)
    /\ last.pre[1].kind = "Array"
    /\ Upstream.list = <<"0", "1">>
    /\ last.list = <<"0", "1", "0", "1">>

-----------------------------------------------------------------------------
\* C18: calling filter, map, mapMany, distinct or concat does no work: no
\* callback is invoked, no traversal of the receiver or of concat's other is
\* started, no element is pulled, and no object but the new sequence changes
\* or appears. The callback runs while the new sequence is traversed, and in
\* every full traversal it is applied to every input from the first on, with
\* the indices 0, 1, 2, ...
C18_CombinatorsAreLazy ==
    /\ last.op \in {"filter", "map", "mapMany", "distinct", "concat"} =>
          /\ last.log = <<>>
          /\ \/ last.ret = "throw" /\ heap = last.pre
             \/ last.ret = "return" /\ heap = Append(last.pre, heap[last.new])
    /\ (/\ last.op \in {"items", "count"}
        /\ \E body \in {"filter", "map", "mapMany", "distinct"} : ReceiverIs(body)
        /\ Receiver._source.fn.cb \in Functions \cup ManySelectors
        /\ Upstream.ret = "return") =>
          /\ Len(StageCalls) = Len(Upstream.list)
          /\ \A k \in 1..Len(StageCalls) :
                /\ StageCalls[k].index = k - 1
                /\ StageCalls[k].value = Upstream.list[k]
                /\ StageCalls[k].cb = Receiver._source.fn.cb

C18_Witness ==
    /\ last.op = "concat"
    /\ last.ret = "return"
    /\ last.source = ObjectRef(1)
    /\ heap[1].kind = "Generator"
    /\ Len(heap[1].elems) = MaxLen
    /\ heap[1].pos = 0
    /\ heap[last.target]._source.ref = 1

-----------------------------------------------------------------------------
\* The instance p of heap h stands on nothing: it wraps a collection without
\* elements (the array of empty() is one), or it was constructed from a
\* generator function that yields nothing or from a function that returns a
\* collection without elements.
EmptyProducer(h, p) ==
    LET src == h[p]._source
    IN  IF ~src.lazy
        THEN h[src.ref].kind \in Collections /\ h[src.ref].elems = <<>>
        ELSE \/ src.fn.body = "generator" /\ src.fn.elems = <<>>
             \/ /\ src.fn.body = "returns"
                /\ h[src.fn.ref].kind \in Collections
                /\ h[src.fn.ref].elems = <<>>

\* C19: a sequence built from an empty collection, from a factory function
\* that produces nothing, or by empty() yields zero elements on every
\* traversal: count() returns 0, items() returns the empty array and first()
\* returns null, whatever was called on it before.
C19_EmptySequencesYieldNothing ==
    /\ last.op = "empty" =>
          /\ last.ret = "return"
          /\ EmptyProducer(heap, last.new)
    /\ \A p \in Instances(heap) : EmptyProducer(heap, p) =>
          /\ Count(Machine(heap), p).ret = "return"
          /\ Count(Machine(heap), p).value = Num(0)
          /\ Items(Machine(heap), p).ret = "return"
          /\ Items(Machine(heap), p).list = <<>>
          /\ First(Machine(heap), p, "undefined").ret = "return"
          /\ First(Machine(heap), p, "undefined").value = "null"
    /\ (last.op \in {"count", "items", "first"} /\ EmptyProducer(last.pre, last.target)) =>
          /\ last.ret = "return"
          /\ last.op = "count" => last.value = Num(0)
          /\ last.op = "items" => last.list = <<>>
          /\ last.op = "first" => last.value = "null"
          /\ EmptyProducer(heap, last.target)

C19_Witness ==
    /\ last.op = "count"
    /\ last.ret = "return"
    /\ last.value = Num(0)
    /\ last.target = 3
    /\ Receiver._source = [lazy |-> FALSE, ref |-> 2, fn |-> Receiver._source.fn]
    /\ heap[2] = [kind |-> "Array", elems |-> <<>>]
    /\ heap[1].kind = "Array"
    /\ Len(heap[1].elems) = MaxLen

-----------------------------------------------------------------------------
\* The enumerable string keys of the argument of keys and values in heap h:
\* the property names of a record, the indices of an array, none for null,
\* undefined and the objects that have no enumerable property.
OwnKeys(h, arg) ==
    IF arg.t # "object" THEN {}
    ELSE CASE h[arg.ref].kind = "Object" ->
                 {h[arg.ref].props[i][1] : i \in 1..Len(h[arg.ref].props)}
           [] h[arg.ref].kind = "Array" ->
                 {Num(i - 1) : i \in 1..Len(h[arg.ref].elems)}
           [] OTHER -> {}

\* obj[key], for a key obj has.
Get(h, arg, key) ==
    IF h[arg.ref].kind = "Object"
    THEN h[arg.ref].props[CHOOSE i \in 1..Len(h[arg.ref].props) :
                              h[arg.ref].props[i][1] = key][2]
    ELSE h[arg.ref].elems[CHOOSE i \in 1..Len(h[arg.ref].elems) : Num(i - 1) = key]

\* Key is an array index, and the index it is.
IsIndex(key) == \E n \in 0..MaxLen : Num(n) = key

ToIndex(key) == CHOOSE n \in 0..MaxLen : Num(n) = key

\* The place at which obj got its property key.
CreatedAt(h, arg, key) ==
    IF h[arg.ref].kind = "Object"
    THEN CHOOSE i \in 1..Len(h[arg.ref].props) : h[arg.ref].props[i][1] = key
    ELSE 0

\* ks is the keys of obj in enumeration order: every key once, the indices
\* first in ascending order, then the other names in the order of creation.
InEnumerationOrder(h, arg, ks) ==
    /\ IsInjective(ks)
    /\ {ks[i] : i \in 1..Len(ks)} = OwnKeys(h, arg)
    /\ \A i, j \in 1..Len(ks) : i < j =>
          IF IsIndex(ks[i])
          THEN IsIndex(ks[j]) => ToIndex(ks[i]) < ToIndex(ks[j])
          ELSE /\ ~IsIndex(ks[j])
               /\ CreatedAt(h, arg, ks[i]) < CreatedAt(h, arg, ks[j])

\* The instances keys(obj) and values(obj) returned, in heap h.
IsKeysOrValues(h, p) ==
    IsLazy(h, p) /\ h[p]._source.fn.body \in {"keys", "values"}

\* What a traversal of keys(obj) yields in heap h.
KeysOf(h, arg) == Items(Machine(Append(h, Keys(h, arg).obj)), Len(h) + 1).list

\* C20: keys(obj) and values(obj) never throw; keys(obj) yields the enumerable
\* string keys of obj in enumeration order, values(obj) yields as many
\* elements as keys(obj) and its i-th is obj[i-th key]; both yield nothing,
\* without throwing, when obj is null, undefined or has no keys.
C20_KeysAndValues ==
    /\ last.op \in {"keys", "values"} =>
          /\ last.ret = "return"
          /\ IsKeysOrValues(heap, last.new)
          /\ heap[last.new]._source.fn.body = last.op
    /\ \A p \in Instances(heap) : IsKeysOrValues(heap, p) =>
          \E r \in {Items(Machine(heap), p)} :
             \E arg \in {heap[p]._source.fn.arg} :
                /\ r.ret = "return"
                /\ heap[p]._source.fn.body = "keys" =>
                      InEnumerationOrder(heap, arg, r.list)
                /\ heap[p]._source.fn.body = "values" =>
                      /\ Len(r.list) = Len(KeysOf(heap, arg))
                      /\ \A i \in 1..Len(r.list) :
                            r.list[i] = Get(heap, arg, KeysOf(heap, arg)[i])
                /\ OwnKeys(heap, arg) = {} => r.list = <<>>
                /\ Count(Machine(heap), p).ret = "return"
                /\ Count(Machine(heap), p).value = Num(Len(r.list))
    /\ (last.op = "items" /\ IsKeysOrValues(last.pre, last.target)) =>
          /\ last.ret = "return"
          /\ last.list = Items(Machine(heap), last.target).list

C20_Witness ==
    /\ last.op = "items"
    /\ IsKeysOrValues(last.pre, last.target)
    /\ Receiver._source.fn.body = "values"
    /\ Receiver._source.fn.arg = Arg("object", 1)
    /\ heap[1].kind = "Object"
    /\ heap[1].props = <<<<"b", "1">>, <<"0", "0">>>>
    /\ last.list = <<"0", "1">>

-----------------------------------------------------------------------------
\* The positions of the log at which a callback was invoked and threw.
ThrowingCalls(log) ==
    {i \in 1..Len(log) :
        /\ log[i].ev = "call"
        /\ Call(log[i].cb, log[i].value, log[i].index).err # "none"}

\* C21: what a predicate, selector or key selector throws during a traversal
\* reaches the caller that started it (count, items, first, some, every, or
\* next() on an iterator held by hand) as the value thrown: the call throws
\* exactly when one callback invocation threw, it throws that invocation's
\* error, no callback is invoked again after it, and nothing more is pulled
\* from any iterator (the stages upstream are only closed).
C21_CallbackErrorsPropagate ==
    last.op \in Traversals \cup {"next"} =>
        /\ last.ret = "throw" <=> ThrowingCalls(last.log) # {}
        /\ Cardinality(ThrowingCalls(last.log)) <= 1
        /\ \A i \in ThrowingCalls(last.log) :
              /\ last.value = Call(last.log[i].cb, last.log[i].value,
                                   last.log[i].index).err
              /\ \A j \in After(last.log, i) : last.log[j].ev = "return"

C21_Witness ==
    /\ last.op = "items"
    /\ last.ret = "throw"
    /\ last.value = "E"
    /\ ReceiverIs("map")
    /\ last.pre[Receiver._source.fn.src]._source.fn.body = "filter"
    /\ last.pre[Receiver._source.fn.src]._source.fn.cb = "throwing"
    /\ heap[1].elems = <<"0", "1">>

-----------------------------------------------------------------------------
\* The last call's traversal did not run to its end: a callback threw, or the
\* consumer left before its iterator reported the end.
Unfinished ==
    /\ last.op \in Traversals
    /\ EventsOf(last.log, "done", TopIterator) = {}

\* C22 as stated: after a traversal that was aborted or abandoned, on any
\* instance, a later items() yields what items() would have yielded before it.
C22_Original_AbortLeavesRetraversable ==
    Unfinished =>
        Seen(Items(Machine(heap), last.target)) = Seen(Items(Machine(last.pre), last.target))

\* C22 amended: after a traversal that was aborted by a callback's exception
\* or abandoned by the consumer, an instance whose root enumeration is
\* repeatable is as it was: the heap holds what it held, every later count(),
\* items() and first() gives what it would have given before, and the call
\* made once more gives the same outcome, its callbacks starting again at
\* index 0.
C22_AbortLeavesRepeatableRetraversable ==
    (Unfinished /\ Repeatable(last.pre, last.target)) =>
        /\ heap = last.pre
        /\ Observed(heap, last.target) = Observed(last.pre, last.target)
        /\ Seen(Again(heap)) = LastSeen
        /\ Again(heap).m.log = last.log

C22_Witness ==
    /\ last.op = "some"
    /\ last.cb = "throwing"
    /\ last.ret = "throw"
    /\ last.value = "E"
    /\ Unfinished
    /\ Repeatable(last.pre, last.target)
    /\ ReceiverIs("map")
    /\ Receiver._source.fn.cb = "index"
    /\ Elements(heap, last.target) = <<"0", "1">>
    /\ heap[1].elems = <<"1", "1">>

-----------------------------------------------------------------------------
\* The operations that hand back a new sequence.
Combinators == {"filter", "map", "mapMany", "distinct", "concat"}

\* C23: no operation mutates its receiver or any other instance. After every
\* call of filter, map, mapMany, distinct, concat, count, items, first, some
\* and every, each instance there was before holds the stored producer it
\* held, and items() of each instance over a repeatable source gives what it
\* gave before; a combinator that returns hands back a new instance, distinct
\* from its receiver and from every object there was.
C23_ReceiverNotMutated ==
    last.op \in Combinators \cup Traversals =>
        /\ \A q \in Instances(last.pre) :
              /\ heap[q] = last.pre[q]
              /\ Repeatable(last.pre, q) =>
                    Seen(Items(Machine(heap), q)) = Seen(Items(Machine(last.pre), q))
        /\ (last.op \in Combinators /\ last.ret = "return") =>
              /\ last.new \notin 1..Len(last.pre)
              /\ last.new # last.target
              /\ heap[last.new].kind = "Iterable"
              /\ Instances(heap) = Instances(last.pre) \cup {last.new}

C23_Witness ==
    /\ last.op = "items"
    /\ Repeatable(last.pre, last.target)
    /\ IsLazy(last.pre, last.target)
    /\ Receiver._source.fn.body = "returns"
    /\ last.list = <<"0", "1">>
    /\ Cardinality(Instances(heap)) = 2

-----------------------------------------------------------------------------
\* The values the iterator `it` yielded in the log, in the order of the log.
RECURSIVE YieldsOf(_, _)
YieldsOf(log, it) ==
    IF log = <<>> THEN <<>>
    ELSE (IF Head(log).ev = "yield" /\ Head(log).id = it
          THEN <<Head(log).value>> ELSE <<>>) \o YieldsOf(Tail(log), it)

\* C24: items() returns every element its traversal yielded, in the order the
\* traversal yielded them; for a sequence that wraps an array it returns the
\* array's elements in the array's order; and count() returns the length of
\* what items() returns on an equal fresh traversal (one started in the same
\* heap), each of the two returning exactly when the other does.
C24_ItemsInOrderCountIsLength ==
    /\ (last.op = "items" /\ last.ret = "return") =>
          /\ last.list = YieldsOf(last.log, TopIterator)
          /\ (~IsLazy(last.pre, last.target)
              /\ last.pre[Receiver._source.ref].kind = "Array")
                => last.list = last.pre[Receiver._source.ref].elems
          /\ Count(Machine(last.pre), last.target).ret = "return"
          /\ Count(Machine(last.pre), last.target).value = Num(Len(last.list))
    /\ (last.op = "count" /\ last.ret = "return") =>
          /\ Offered.ret = "return"
          /\ last.value = Num(Len(Offered.list))
    /\ (last.op \in {"items", "count"} /\ last.ret = "throw") =>
          /\ Count(Machine(last.pre), last.target).ret = "throw"
          /\ Offered.ret = "throw"

C24_Witness ==
    /\ last.op = "items"
    /\ last.ret = "return"
    /\ ~IsLazy(last.pre, last.target)
    /\ last.pre[Receiver._source.ref].kind = "Array"
    /\ last.list = <<"1", "0">>
    /\ Count(Machine(last.pre), last.target).value = "2"

-----------------------------------------------------------------------------
\* The instance w of heap h was constructed from another instance:
\* new Iterable(inner).
IsWrapper(h, w) ==
    /\ ~IsLazy(h, w)
    /\ h[h[w]._source.ref].kind = "Iterable"

\* The call op(cb) made on the instance p in heap h.
CallOn(h, op, p, cb) ==
    CASE op = "count" -> Count(Machine(h), p)
      [] op = "items" -> Items(Machine(h), p)
      [] op = "first" -> First(Machine(h), p, cb)
      [] op = "some"  -> Some(Machine(h), p, cb)
      [] op = "every" -> Every(Machine(h), p, cb)

\* C25: an instance is iterable by delegating to its stored producer, so
\* new Iterable(inner) is transparent: in any heap every operation (count,
\* items, first, some, every, with any callback) gives on the wrapper the
\* outcome it gives on inner, items() the same elements in the same order, and
\* the wrapper's traversal is inner's traversal after one more delegation.
C25_WrapperIsTransparent ==
    /\ \A w \in Instances(heap) : IsWrapper(heap, w) =>
          \A op \in Traversals, cb \in Callbacks :
             \E r \in {CallOn(heap, op, w, cb)} :
                \E s \in {CallOn(heap, op, heap[w]._source.ref, cb)} :
                   /\ Seen(r) = Seen(s)
                   /\ Tail(r.m.log) = s.m.log
                   /\ Head(r.m.log) = Event("iterate", w, "undefined", 0, "undefined")
    /\ (last.op \in Traversals /\ IsWrapper(last.pre, last.target)) =>
          LastSeen = Seen(CallOn(last.pre, last.op, Receiver._source.ref, last.cb))

C25_Witness ==
    /\ last.op = "items"
    /\ IsWrapper(last.pre, last.target)
    /\ last.ret = "return"
    /\ last.list = <<"0", "1">>
    /\ Elements(last.pre, Receiver._source.ref) = <<"0", "1">>

-----------------------------------------------------------------------------
\* The instance p of heap h is a stage built on a stage: s.filter(p).map(f)
\* and the like.
IsChain(h, p) ==
    /\ IsLazy(h, p)
    /\ h[p]._source.fn.body \in {"filter", "map"}
    /\ IsLazy(h, h[p]._source.fn.src)
    /\ h[h[p]._source.fn.src]._source.fn.body \in {"filter", "map"}

\* The last call made again where it was made, and the iterator the
\* generator g draws from in it.
Replay == CallOn(last.pre, last.op, last.target, last.cb)

Parent(g) == Replay.m.heap[g].it

\* The calls the generator g made of its callback in the log, in order.
CallsOf(log, g) == SelectSeq(log, LAMBDA e : e.ev = "call" /\ e.id = g)

\* In the log the generator g calls its callback on each element its parent
\* yields as soon as the parent yields it, before anything else happens, with
\* an index that counts the elements the parent has yielded to it.
DrivenByDemand(log, g, parent) ==
    /\ Len(CallsOf(log, g)) = Len(YieldsOf(log, parent))
    /\ \A k \in 1..Len(CallsOf(log, g)) :
          /\ CallsOf(log, g)[k].index = k - 1
          /\ CallsOf(log, g)[k].value = YieldsOf(log, parent)[k]
    /\ \A y \in EventsOf(log, "yield", parent) :
          /\ y < Len(log)
          /\ log[y + 1].ev = "call"
          /\ log[y + 1].id = g

\* C26: a chain such as s.filter(p).map(f) is evaluated on demand, element by
\* element. In every traversal each stage's callback runs on an element the
\* moment its parent stage yields it (the callbacks of the stages interleave
\* per element), with an index counting the elements received from the parent
\* (f's index counts the elements that passed p); and one next() on the
\* last stage ends with the one element it yields, nothing being pulled after
\* that.
C26_ChainDrivenByDemand ==
    /\ (last.op \in Traversals /\ IsChain(last.pre, last.target)) =>
          /\ DrivenByDemand(last.log, TopIterator, Parent(TopIterator))
          /\ DrivenByDemand(last.log, Parent(TopIterator), Parent(Parent(TopIterator)))
    /\ (last.op = "next" /\ last.pre[last.target].kind = "Stage") =>
          /\ Cardinality(EventsOf(last.log, "yield", last.target)) <= 1
          /\ EventsOf(last.log, "yield", last.target) \subseteq {Len(last.log)}
          /\ last.list # <<>> => EventsOf(last.log, "yield", last.target) # {}
          /\ heap[last.target].it # 0 =>
                \A y \in EventsOf(last.log, "yield", heap[last.target].it) :
                   /\ last.log[y + 1].ev = "call"
                   /\ last.log[y + 1].id = last.target

C26_Witness ==
    /\ last.op = "items"
    /\ IsChain(last.pre, last.target)
    /\ Receiver._source.fn.body = "map"
    /\ Receiver._source.fn.cb = "index"
    /\ last.pre[Receiver._source.fn.src]._source.fn.body = "filter"
    /\ last.pre[Receiver._source.fn.src]._source.fn.cb = "item"
    /\ heap[1].elems = <<"0", "1">>
    /\ last.list = <<"0">>

-----------------------------------------------------------------------------
\* The traversals of s.filter(p) and s.map(f) under way in the heap, with a
\* callback that returns for every element of s.
StageTraversals ==
    {g \in 1..Len(heap) :
        /\ heap[g].kind = "Stage"
        /\ heap[g].body \in {"filter", "map"}
        /\ Items(Machine(heap), heap[g].src).ret = "return"
        /\ Returns(Elements(heap, heap[g].src), heap[g].cb)}

\* The generator g as it was when its traversal started, and the elements a
\* traversal like g's yields when it runs alone from start to end.
Fresh(g) ==
    [heap[g] EXCEPT !.state = "suspendedStart", !.index = 0, !.it = 0,
                    !.set = {}, !.inner = 0]

Alone(g) == Spread(Alloc(Machine(heap), Fresh(g)), Len(heap) + 1, <<>>)

\* What a stage like g yields for the inputs xs at the one-based positions in S.
YieldedFor(g, xs, S) ==
    IF heap[g].body = "map"
    THEN Pick(Selected(xs, heap[g].cb), S, 1)
    ELSE Pick(xs, Passing(xs, heap[g].cb) \cap S, 1)

\* The inputs the generator g has still to receive: what is left of the
\* iterator its loop draws from, or all of its parent when it has not started.
Remaining(g) ==
    IF heap[g].it = 0 THEN Items(Machine(heap), heap[g].src)
    ELSE Spread(Machine(heap), heap[g].it, <<>>)

\* The iterator `it` of heap h and the iterators it draws from, down to the
\* collection's.
RECURSIVE Below(_, _)
Below(h, it) ==
    IF it = 0 THEN {}
    ELSE IF h[it].kind = "Stage" THEN {it} \cup Below(h, h[it].it)
    ELSE {it}

\* C27: traversals of one derived sequence over a repeatable root, advanced in
\* any interleaving, are independent. Starting one makes a new iterator in its
\* start state; a next() on one changes no object but that iterator and the
\* cursors it draws from, which no other traversal draws from; each
\* traversal's index equals the number of inputs its own cursor has handed
\* it; and what it has yielded followed by what it will still yield is what
\* the traversal yields when it runs alone.
C27_InterleavedTraversalsIndependent ==
    /\ last.op = "iterator" =>
          /\ last.new \notin 1..Len(last.pre)
          /\ \A id \in 1..Len(last.pre) : heap[id] = last.pre[id]
          /\ heap[last.new].kind = "Stage" =>
                heap[last.new] = Fresh(last.new)
    /\ last.op = "next" =>
          \A id \in 1..Len(last.pre) :
             id \notin Below(heap, last.target) => heap[id] = last.pre[id]
    /\ \A g \in StageTraversals :
          \E xs \in {Elements(heap, heap[g].src)} :
             \E rest \in {Spread(Machine(heap), g, <<>>)} :
                /\ heap[g].index <= Len(xs)
                /\ heap[g].it # 0 =>
                      \A h \in StageTraversals \ {g} : heap[h].it # heap[g].it
                /\ Remaining(g).ret = "return"
                /\ heap[g].state # "completed" =>
                      Remaining(g).list = SubSeq(xs, heap[g].index + 1, Len(xs))
                /\ rest.ret = "return"
                /\ heap[g].state # "completed" =>
                      rest.list = YieldedFor(g, xs, (heap[g].index + 1)..Len(xs))
                /\ Alone(g).list = YieldedFor(g, xs, 1..Len(xs))
                /\ heap[g].state # "completed" =>
                      YieldedFor(g, xs, 1..heap[g].index) \o rest.list = Alone(g).list

C27_Witness ==
    /\ last.op = "next"
    /\ last.target \in StageTraversals
    /\ heap[last.target].body = "map"
    /\ heap[last.target].cb = "index"
    /\ last.value = "0"
    /\ \E g \in StageTraversals \ {last.target} :
         /\ heap[g].src = heap[last.target].src
         /\ heap[g].body = "map"
         /\ heap[g].cb = "index"
         /\ heap[g].index = 2
         /\ heap[g].state = "suspendedYield"
         /\ heap[last.target].index = 1

-----------------------------------------------------------------------------
\* The last call's receiver wraps a generator object, one not yet closed:
\* new Iterable((function* () { ... })()).
WrapsGenerator ==
    /\ last.target # 0
    /\ ~IsLazy(last.pre, last.target)
    /\ last.pre[Receiver._source.ref].kind = "Generator"
    /\ ~last.pre[Receiver._source.ref].closed

\* The generator object the receiver wraps, before and after the last call.
GeneratorBefore == last.pre[Receiver._source.ref]

GeneratorAfter == heap[Receiver._source.ref]

\* C28: on a sequence that wraps a generator object, first() without a
\* predicate pulls exactly one element from the generator and does not close
\* it, so that items() called next returns the remaining elements, from the
\* second on; first(predicate), some and every that return early (at a
\* deciding element) close the generator, so that items() called next returns
\* no element.
C28_FirstLeavesGeneratorOpen ==
    /\ (last.op = "first" /\ ~Truthy(last.cb) /\ WrapsGenerator
        /\ GeneratorBefore.pos < Len(GeneratorBefore.elems)) =>
          /\ last.ret = "return"
          /\ last.value = GeneratorBefore.elems[GeneratorBefore.pos + 1]
          /\ GeneratorAfter = [GeneratorBefore EXCEPT !.pos = @ + 1]
          /\ Cardinality(EventsOf(last.log, "yield", Receiver._source.ref)) = 1
          /\ EventsOf(last.log, "return", Receiver._source.ref) = {}
          /\ Items(Machine(heap), last.target).ret = "return"
          /\ Elements(heap, last.target) = Tail(Offered.list)
          /\ Elements(heap, last.target)
               = SubSeq(GeneratorBefore.elems, GeneratorBefore.pos + 2,
                        Len(GeneratorBefore.elems))
    /\ (last.op \in {"first", "some", "every"} /\ last.cb \in Functions
        /\ WrapsGenerator /\ Deciding # {}) =>
          /\ last.ret = "return"
          /\ GeneratorAfter.closed
          /\ GeneratorAfter.pos = GeneratorBefore.pos + Min(Deciding)
          /\ EventsOf(last.log, "return", Receiver._source.ref) # {}
          /\ Items(Machine(heap), last.target).ret = "return"
          /\ Elements(heap, last.target) = <<>>

C28_Witness ==
    /\ last.op = "first"
    /\ last.cb = "undefined"
    /\ WrapsGenerator
    /\ GeneratorBefore.elems = <<"0", "1">>
    /\ GeneratorBefore.pos = 0
    /\ last.value = "0"
    /\ Elements(heap, last.target) = <<"1">>

-----------------------------------------------------------------------------
\* What a traversal of the object p yields in heap h, told from the data as
\* it is in h: the elements of a collection, the yields of a generator
\* function, and for a derived sequence the combinator's result on what its
\* parent yields in h.
RECURSIVE Denotes(_, _)
Denotes(h, p) ==
    LET o == h[p]
        fn == o._source.fn
    IN  IF o.kind \in Collections THEN o.elems
        ELSE IF ~o._source.lazy THEN Denotes(h, o._source.ref)
        ELSE CASE fn.body = "returns" -> Denotes(h, fn.ref)
               [] fn.body = "generator" -> fn.elems
               [] fn.body = "filter" ->
                     Pick(Denotes(h, fn.src), Passing(Denotes(h, fn.src), fn.cb), 1)
               [] fn.body = "map" -> Selected(Denotes(h, fn.src), fn.cb)
               [] fn.body = "distinct" ->
                     Pick(Denotes(h, fn.src), FirstOccurrences(Denotes(h, fn.src), fn.cb), 1)
               [] fn.body = "mapMany" -> Flatten(SubSequences(Denotes(h, fn.src), fn.cb))
               [] fn.body = "concat" -> Denotes(h, fn.src) \o Denotes(h, fn.arg.ref)
               [] fn.body = "keys" ->
                     [i \in 1..Len(ForIn(h, fn.arg)) |-> ForIn(h, fn.arg)[i][1]]
               [] fn.body = "values" ->
                     [i \in 1..Len(ForIn(h, fn.arg)) |-> ForIn(h, fn.arg)[i][2]]

\* The caller's operations that change its data.
Mutations == {"push", "assign"}

\* C29: composition is by reference. A sequence returned by filter, map,
\* mapMany, distinct or concat stores its receiver and its argument and no
\* element; a change of the caller's array or object changes no instance; and
\* in every heap, so after every such change, a traversal that returns yields
\* what the combinators give on the data as it is then.
C29_CompositionByReference ==
    /\ (last.op \in Combinators /\ last.ret = "return") =>
          /\ heap[last.new]._source.lazy
          /\ heap[last.new]._source.fn.body = last.op
          /\ heap[last.new]._source.fn.src = last.target
          /\ heap[last.new]._source.fn.elems = <<>>
    /\ last.op \in Mutations =>
          \A id \in 1..Len(heap) : id # last.target => heap[id] = last.pre[id]
    /\ \A p \in Instances(heap) :
          Items(Machine(heap), p).ret = "return" =>
             Items(Machine(heap), p).list = Denotes(heap, p)
    /\ (last.op = "items" /\ last.ret = "return") =>
          last.list = Denotes(last.pre, last.target)

C29_Witness ==
    /\ last.op = "push"
    /\ \E p \in Instances(heap) :
          /\ IsLazy(heap, p)
          /\ heap[p]._source.fn.body = "map"
          /\ heap[p]._source.fn.cb = "item"
          /\ Elements(last.pre, p) = <<"1">>
          /\ Elements(heap, p) = <<"1", "0">>

====
